---- MODULE Spec2Model ----
(***************************************************************************)
(* A model of sechat's rate-limited request gateway (Room._request and its *)
(* wrappers), its event model (EventAdapter), the event stream and the     *)
(* connection loop of a room (Room.events) and the life of a Room          *)
(* (Room.join, Room.close), written from src/sechat/room.py and            *)
(* src/sechat/events.py; the anonymous poll of a room (Room.anonymous);    *)
(* the handler registry, the dispatch, the thread (run, halt) and the      *)
(* cooldown (processTooFast) of the threaded Room of                       *)
(* src/sechat/__init__.py; and the room tasks and the shutdown of the Bot  *)
(* of src/sechat/bot.py.                                                   *)
(*                                                                         *)
(* Text (HTTP bodies, form values, messages) is a sequence of tokens: a    *)
(* token is a fragment of the text that the code never looks inside.      *)
(***************************************************************************)
EXTENDS Integers, Sequences, FiniteSets, TLC

VARIABLES
    fkey,       \* Room._fkey, the CSRF token of the room
    calls,      \* per caller: the state of its call of a gateway operation
    raw,        \* the raw event handed to EventAdapter.validate_python
    decoded,    \* what EventAdapter.validate_python made of it
    ev,         \* the state of the generator Room.events
    room,       \* the life of the Room: joined, open, closed, and its session
    thr,        \* the threaded Room of __init__.py: registry, sockets, thread
    bot,        \* the Bot of bot.py: its rooms and their tasks
    anon        \* the state of the generator Room.anonymous

vars == <<fkey, calls, raw, decoded, ev, room, thr, bot, anon>>

\* before a threaded Room is constructed. Of the fields, handlers is
\* Room.handlers, a dict from the value of an event type to a callback;
\* asked has the pairs of on() calls made for a type since the last off() of
\* that type, bad the callbacks that raise whenever they are called, op and
\* res the last call of on or off and how it ended; sockets counts the open
\* sockets the Room has created, threads the threads of Room.run that have
\* been started and have not ended, entered those of them that have set
\* running; frame is the list of events process() was last called for, done
\* how many of them it got through, log the calls it made for them and exc
\* the exception that left it and ended the thread. halted says that halt()
\* has been called, data is the local variable data of Room.run, recv what
\* socket.recv() did in the last iteration of its loop and called whether
\* that iteration called process(); left counts the threads that have left
\* the loop, sent the leave request and closed the socket. cooldown is
\* Room.cooldown, slept lists the sleeps of the call of processTooFast
\* that is running or ended last, and tf is that call: where it is, the
\* method that made it, its argument handleTooFast and how it ended.
NoThread ==
    [pc |-> "none", handlers |-> <<>>, asked |-> {}, bad |-> {},
     op |-> <<>>, res |-> "", sockets |-> 0, threads |-> 0, entered |-> 0,
     running |-> FALSE, frame |-> <<>>, log |-> <<>>, done |-> 0,
     exc |-> "", halted |-> FALSE,
     data |-> [t |-> "unbound", s |-> <<>>], recv |-> "", called |-> FALSE,
     left |-> 0, cooldown |-> 0, slept |-> <<>>,
     tf |-> [pc |-> "idle", method |-> "", handle |-> FALSE, res |-> ""]]

\* Bot.__init__: no rooms, no tasks. rooms maps a room id to a Room (the
\* Rooms are numbered as they are constructed, made[r] is the room id of the
\* Room r) and roomTasks a Room to a task (the tasks are numbered as they are
\* created); left has the Rooms for which leaveRoom has returned; op and res
\* are the last call of a method of the Bot and how it ended; session is
\* the state of Bot.session, and unawaited has the coroutine objects that
\* were created and dropped without being awaited.
NoBot ==
    [logged |-> FALSE, rooms |-> <<>>, roomTasks |-> <<>>, made |-> <<>>,
     tasks |-> <<>>, left |-> {}, op |-> <<>>, res |-> "",
     session |-> "open", unawaited |-> {}]

\* before Room.anonymous is called. pc is where the generator is: "poll"
\* before a POST to /events, "yield" suspended at the yield of the event i
\* of the payload e, "sleep" before sleep(poll_interval), "raised" once an
\* exception has left it; now is the time in seconds that the generator has
\* slept, and times lists the value of now at each POST to /events.
NoAnon ==
    [pc |-> "off", interval |-> 0, last_time |-> 0, now |-> 0, times |-> <<>>,
     e |-> <<>>, i |-> 0, exc |-> ""]

-----------------------------------------------------------------------------
(* Bounds of the model.                                                    *)

\* the most 409 answers the server gives to one call
MaxTries == 2
\* the most events in one frame
MaxFrameLen == 3
\* the most steps of the clock during one connection
MaxTicks == 2

-----------------------------------------------------------------------------
(* Text: decimal numbers.                                                  *)

Digits == <<"0", "1", "2", "3", "4", "5", "6", "7", "8", "9">>

IsDigit(t) == \E i \in 1..10 : Digits[i] = t

DigitVal(t) == (CHOOSE i \in 1..10 : Digits[i] = t) - 1

\* int(s) for a string of digits
RECURSIVE ParseInt(_)
ParseInt(ds) ==
    IF ds = <<>> THEN 0
    ELSE 10 * ParseInt(SubSeq(ds, 1, Len(ds) - 1)) + DigitVal(ds[Len(ds)])

\* str(n) for n >= 0
RECURSIVE IntToStr(_)
IntToStr(n) ==
    IF n < 10 THEN <<Digits[n + 1]>>
    ELSE IntToStr(n \div 10) \o <<Digits[(n % 10) + 1]>>

-----------------------------------------------------------------------------
(* The 409 body: BACKOFF_RESPONSE and its use in Room._request.            *)

PFX == "You can perform this action again in "
SEC == " second"

\* the length of the longest run of digits of text that starts at index i
RECURSIVE DigitRun(_, _)
DigitRun(text, i) ==
    IF i <= Len(text) /\ IsDigit(text[i]) THEN 1 + DigitRun(text, i + 1) ELSE 0

\* what follows (\d+) in the pattern, matched at index j up to position `last`
TailMatches(text, j, last) ==
    /\ j <= Len(text)
    /\ text[j] = SEC
    /\ \/ last = j + 1 /\ text[j + 1] = "."
       \/ last = j + 2 /\ text[j + 1] = "s" /\ text[j + 2] = "."

\* BACKOFF_RESPONSE.match(text): the pattern matches a prefix of the text
\* (the result is group 1, or <<>> for None)
BackoffPrefixMatch(text) ==
    LET k == DigitRun(text, 2)
    IN  IF /\ Len(text) >= 1
           /\ text[1] = PFX
           /\ k >= 1
           /\ \E last \in 1..Len(text) : TailMatches(text, 2 + k, last)
        THEN SubSeq(text, 2, 1 + k)
        ELSE <<>>

\* BACKOFF_RESPONSE.fullmatch(text): group 1, or <<>> for None
BackoffFullmatch(text) ==
    LET k == DigitRun(text, 2)
    IN  IF /\ Len(text) >= 1
           /\ text[1] = PFX
           /\ k >= 1
           /\ TailMatches(text, 2 + k, Len(text))
        THEN SubSeq(text, 2, 1 + k)
        ELSE <<>>

\* the retry_after of the RatelimitError that Room._request raises on a 409
RetryAfter(text) ==
    LET g == BackoffFullmatch(text)
    IN  IF g = <<>> THEN 1 ELSE ParseInt(g)

-----------------------------------------------------------------------------
(* JSON, as far as the gateway's wrappers look at it: numbers, strings,     *)
(* true and false, and objects with at most one member, whose value is a   *)
(* number.                                                                 *)

StrToks == {"\"ok\"", "\"id\"", "\"time\""}

\* the string a string literal denotes
StrOf(tok) ==
    CASE tok = "\"ok\"" -> "ok"
      [] tok = "\"id\"" -> "id"
      [] tok = "\"time\"" -> "time"

JNull == [t |-> "null", n |-> 0, s |-> "", key |-> ""]
JNum(n) == [t |-> "num", n |-> n, s |-> "", key |-> ""]
JStr(s) == [t |-> "str", n |-> 0, s |-> s, key |-> ""]
\* the object {key: n}; key "" is the empty object
JObj(key, n) == [t |-> "obj", n |-> n, s |-> "", key |-> key]
\* True and False: a bool is an int in Python, with the value 1 or 0
JBool(b) == [t |-> "bool", n |-> IF b THEN 1 ELSE 0, s |-> "", key |-> ""]

\* a JSON number: digits, without a leading zero
IsJsonNumber(text) ==
    /\ Len(text) >= 1
    /\ DigitRun(text, 1) = Len(text)
    /\ (Len(text) > 1 => text[1] # "0")

\* json.loads(text): ok is FALSE where it raises JSONDecodeError
JsonLoads(text) ==
    LET n == Len(text)
    IN  CASE IsJsonNumber(text) -> [ok |-> TRUE, v |-> JNum(ParseInt(text))]
          [] n = 1 /\ text[1] \in StrToks -> [ok |-> TRUE, v |-> JStr(StrOf(text[1]))]
          [] text = <<"{", "}">> -> [ok |-> TRUE, v |-> JObj("", 0)]
          [] text = <<"true">> -> [ok |-> TRUE, v |-> JBool(TRUE)]
          [] text = <<"false">> -> [ok |-> TRUE, v |-> JBool(FALSE)]
          [] /\ n >= 5
             /\ text[1] = "{" /\ text[2] \in StrToks /\ text[3] = ":"
             /\ text[n] = "}"
             /\ IsJsonNumber(SubSeq(text, 4, n - 1))
             -> [ok |-> TRUE,
                 v |-> JObj(StrOf(text[2]), ParseInt(SubSeq(text, 4, n - 1)))]
          [] OTHER -> [ok |-> FALSE, v |-> JNull]

-----------------------------------------------------------------------------
(* Form data: Python dicts from field names to text.                       *)

EmptyDict == [k \in {} |-> <<>>]

\* a | b
DictUnion(a, b) ==
    [k \in DOMAIN a \cup DOMAIN b |-> IF k \in DOMAIN b THEN b[k] ELSE a[k]]

\* {"fkey": fk} | data: the caller's entries win
FormCallerWins(data, fk) ==
    [form |-> DictUnion("fkey" :> fk, data), data |-> data]

\* data | {"fkey": self._fkey}: the form that is posted, and the dict the
\* caller passed as it is afterwards
RequestForm(data, fk) ==
    [form |-> DictUnion(data, "fkey" :> fk), data |-> data]

-----------------------------------------------------------------------------
(* The decorator of Room._request: backoff.on_exception(runtime,           *)
(* RatelimitError, value=lambda e: e.retry_after, jitter=None).            *)

MaxTriesExceededAtTwo(tries) == tries >= 2

\* max_tries is not given: the decorator never gives up
MaxTriesExceeded(tries) == FALSE

NextWaitGrowing(retry_after, tries) == retry_after * tries

\* the wait generator `runtime` yields value(e); no jitter is added
NextWait(retry_after, tries) == retry_after

-----------------------------------------------------------------------------
(* The room and the callers of its gateway.                                *)

\* Room.room_id
room_id == 1

Callers == {"c1", "c2"}

\* the generator Room.events, as a caller of Room._request
Loop == "events"

AllCallers == Callers \cup {Loop}

Fkeys == {<<"fk1">>, <<"fk2">>}

LeaveUrl == <<"/chats/leave/">> \o IntToStr(room_id)
AckUrl == <<"/messages/ack">>
NewMessageUrl == <<"/chats/">> \o IntToStr(room_id) \o <<"/messages/new">>

\* the urls and form maps callers give to Room._request
RequestUrls == {LeaveUrl}
RequestData ==
    { EmptyDict,
      "quiet" :> <<"true">>,
      ("fkey" :> <<"mine">>) @@ ("id" :> <<"7">>) }

\* the arguments callers give to Room.send; reply_to None is {}
Messages == {<<>>, <<"hello">>}
ReplyTos == {{}, {7}}

\* what the server answers
Sentence(n) == <<PFX>> \o IntToStr(n) \o <<SEC, "s", ".">>
Bodies409 ==
    { Sentence(5),
      <<PFX, "1", SEC, ".">>,
      Sentence(12),
      Sentence(5) \o <<"\n">>,
      <<PFX, SEC, "s", ".">>,
      <<"x">> }
Bodies200 ==
    { <<"{", "\"id\"", ":", "4", "2", "}">>,
      <<"{", "}">>,
      <<"\"ok\"">>,
      <<"x">> }
OtherStatuses == {404, 500}
ErrBody == <<"x">>

NoPost == [url |-> <<>>, form |-> EmptyDict]

\* a caller that has not called yet. Of the fields, op is the method called
\* and msg, reply and ids its arguments; text is the text it returned or the
\* payload of the OperationFailedError it raised, val the value it returned.
IdleCall ==
    [pc |-> "idle", op |-> "", msg |-> <<>>, reply |-> {},
     url |-> <<>>, data |-> EmptyDict,
     arg |-> EmptyDict, tries |-> 0, posts |-> 0, first |-> NoPost,
     last |-> NoPost, status |-> 0, body |-> <<>>, slept |-> 0,
     exc |-> "", text |-> <<>>, val |-> JNull, ids |-> {}]

\* a caller calls Room._request(url, data)
CallRequest(c, url, data) ==
    /\ calls[c].pc = "idle"
    /\ calls' = [calls EXCEPT ![c] =
                    [IdleCall EXCEPT !.pc = "post", !.op = "request",
                                     !.url = url, !.data = data, !.arg = data]]
    /\ UNCHANGED <<fkey, raw, decoded, ev, room, thr, bot, anon>>

\* message, as Room.send changes it before it is posted
SendText(message, reply_to) ==
    IF reply_to = {} THEN message
    ELSE LET r == CHOOSE r \in reply_to : TRUE
         IN  <<":">> \o IntToStr(r) \o <<" ">> \o message

SendRejectsAfterPrefix(message, reply_to) ==
    Len(SendText(message, reply_to)) = 0

\* `if not len(message)`, the first statement of Room.send
SendRejects(message, reply_to) == Len(message) = 0

\* a caller calls Room.send(message, reply_to), up to its call of
\* Room._request
CallSend(c, message, reply_to) ==
    /\ calls[c].pc = "idle"
    /\ LET k == [IdleCall EXCEPT !.op = "send", !.msg = message,
                                 !.reply = reply_to]
           d == "text" :> SendText(message, reply_to)
       IN  calls' = [calls EXCEPT ![c] =
                        IF SendRejects(message, reply_to)
                        THEN [k EXCEPT !.pc = "raised", !.exc = "ValueError"]
                        ELSE [k EXCEPT !.pc = "post", !.url = NewMessageUrl,
                                       !.data = d, !.arg = d]]
    /\ UNCHANGED <<fkey, raw, decoded, ev, room, thr, bot, anon>>

\* the call k once Room._request has sent its POST with the token fk
Posted(k, fk) ==
    LET f == RequestForm(k.arg, fk)
        p == [url |-> k.url, form |-> f.form]
    IN  [k EXCEPT !.pc = "await",
                  !.posts = @ + 1,
                  !.first = IF k.posts = 0 THEN p ELSE @,
                  !.last = p,
                  !.arg = f.data]

PostWaitsForBackoff(c) ==
    /\ calls[c].pc = "post"
    /\ \A d \in AllCallers \ {c} : calls[d].pc # "sleep"
    /\ calls' = [calls EXCEPT ![c] = Posted(calls[c], fkey)]
    /\ UNCHANGED <<fkey, raw, decoded, ev, room, thr, bot, anon>>

\* Room._request sends its POST (first attempt or retry)
Post(c) ==
    /\ calls[c].pc = "post"
    /\ calls' = [calls EXCEPT ![c] = Posted(calls[c], fkey)]
    /\ UNCHANGED <<fkey, raw, decoded, ev, room, thr, bot, anon>>

-----------------------------------------------------------------------------
(* The wrappers of the gateway and the action methods built on them.       *)

\* the methods that end with `await self._ok_request(...)`
NiladRoutes ==
    [delete |-> <<"delete">>, star |-> <<"star">>, pin |-> <<"owner-star">>,
     unpin |-> <<"unowner-star">>, clear_stars |-> <<"unstar">>]
OkMethods ==
    {"ok_request", "edit", "delete_bookmark"} \cup DOMAIN NiladRoutes

\* a call of the method op with the url and the data it gives to the wrapper
MethodCall(op, url, data) ==
    [IdleCall EXCEPT !.pc = "post", !.op = op, !.url = url, !.data = data,
                     !.arg = data]

\* a caller calls Room._json_request(url, data) or Room._ok_request(url, data)
CallWrapper(c, op, url, data) ==
    /\ calls[c].pc = "idle"
    /\ op \in {"json_request", "ok_request"}
    /\ calls' = [calls EXCEPT ![c] = MethodCall(op, url, data)]
    /\ UNCHANGED <<fkey, raw, decoded, ev, room, thr, bot, anon>>

\* a caller calls Room.edit(message_id, new_body)
CallEdit(c, message_id, new_body) ==
    /\ calls[c].pc = "idle"
    /\ calls' = [calls EXCEPT ![c] =
                    MethodCall("edit", <<"/messages/">> \o IntToStr(message_id),
                               "text" :> new_body)]
    /\ UNCHANGED <<fkey, raw, decoded, ev, room, thr, bot, anon>>

\* a caller calls Room.delete, star, pin, unpin or clear_stars (message_id):
\* Room._message_nilad_route(op, message_id)
CallNilad(c, method, message_id) ==
    /\ calls[c].pc = "idle"
    /\ method \in DOMAIN NiladRoutes
    /\ calls' = [calls EXCEPT ![c] =
                    MethodCall(method,
                               <<"/messages/">> \o IntToStr(message_id)
                                   \o <<"/">> \o NiladRoutes[method],
                               EmptyDict)]
    /\ UNCHANGED <<fkey, raw, decoded, ev, room, thr, bot, anon>>

\* ",".join(map(str, message_ids)): the set is iterated in an order that
\* Python does not specify
RECURSIVE JoinIds(_)
JoinIds(ids) ==
    IF ids = {} THEN <<>>
    ELSE LET one == CHOOSE i \in ids : TRUE
             rest == ids \ {one}
         IN  IntToStr(one) \o (IF rest = {} THEN <<>> ELSE <<",">>)
                 \o JoinIds(rest)

\* a caller calls Room.move_messages(message_ids, target_room)
CallMoveMessages(c, message_ids, target_room) ==
    /\ calls[c].pc = "idle"
    /\ calls' = [calls EXCEPT ![c] =
                    [MethodCall("move_messages",
                                <<"/admin/movePosts/">> \o IntToStr(room_id),
                                ("to" :> IntToStr(target_room)) @@
                                ("ids" :> JoinIds(message_ids)))
                     EXCEPT !.ids = message_ids]]
    /\ UNCHANGED <<fkey, raw, decoded, ev, room, thr, bot, anon>>

\* str.lower, str.isalnum and the replacement of " " for the characters of
\* the titles
Lower(ch) == CASE ch = "M" -> "m" [] OTHER -> ch
IsAlnum(ch) == ch \in {"M", "m", "y", "1"}
Dashed(ch) == IF ch = " " THEN "-" ELSE ch

\* "".join(filter(lambda char: char.isalnum(), title.lower().replace(" ", "-")))
Slug(title) ==
    SelectSeq([i \in 1..Len(title) |-> Dashed(Lower(title[i]))], IsAlnum)

\* a caller calls Room.bookmark(start_message, end_message, title)
CallBookmark(c, start_message, end_message, title) ==
    /\ calls[c].pc = "idle"
    /\ calls' = [calls EXCEPT ![c] =
                    [MethodCall("bookmark", <<"/conversation/new">>,
                                ("roomId" :> IntToStr(room_id)) @@
                                ("firstMessageId" :> IntToStr(start_message)) @@
                                ("lastMessageId" :> IntToStr(end_message)) @@
                                ("title" :> title))
                     EXCEPT !.msg = title]]
    /\ UNCHANGED <<fkey, raw, decoded, ev, room, thr, bot, anon>>

\* a caller calls Room.delete_bookmark(slug)
CallDeleteBookmark(c, slug) ==
    /\ calls[c].pc = "idle"
    /\ calls' = [calls EXCEPT ![c] =
                    MethodCall("delete_bookmark",
                               <<"/conversation/delete/">> \o IntToStr(room_id)
                                   \o <<"/">> \o slug,
                               EmptyDict)]
    /\ UNCHANGED <<fkey, raw, decoded, ev, room, thr, bot, anon>>

\* how the call k ends with the OperationFailedError that carries payload
OperationFailed(payload) ==
    [pc |-> "raised", exc |-> "OperationFailedError", text |-> payload,
     val |-> JNull]

OkRequestAcceptsAnyJson(v) == TRUE

\* the test of Room._ok_request on the decoded response: response == "ok"
OkRequestAccepts(v) == v = JStr("ok")

\* Room._json_request once Room._request has returned `text`: the decoded
\* value, or how the method ends when json.loads raises JSONDecodeError
JsonRequest(text) ==
    LET j == JsonLoads(text)
    IN  IF j.ok THEN [ok |-> TRUE, r |-> j.v]
        ELSE [ok |-> FALSE, r |-> OperationFailed(text)]

\* not (result != n), for the value result of json.loads and an int n:
\* Python compares a bool as the int it is
EqualsInt(v, n) == v.t \in {"num", "bool"} /\ v.n = n

\* the rest of the method of the call k once Room._request has returned
\* `text` to Room._json_request
AfterMethod(k, text) ==
    LET j == JsonRequest(text)
        v == j.r
    IN  IF ~j.ok THEN j.r
        ELSE CASE k.op = "json_request" ->
                    [pc |-> "returned", exc |-> "", text |-> <<>>, val |-> v]
              [] k.op \in OkMethods ->
                    IF OkRequestAccepts(v)
                    THEN [pc |-> "returned", exc |-> "", text |-> <<>>,
                          val |-> JNull]
                    ELSE OperationFailed(text)
              [] k.op = "move_messages" ->
                    IF EqualsInt(v, Cardinality(k.ids))
                    THEN [pc |-> "returned", exc |-> "", text |-> <<>>,
                          val |-> JNull]
                    ELSE OperationFailed(<<>>)
              [] k.op = "bookmark" ->
                    IF v.t = "obj" /\ v.key = "ok" /\ v.n # 0
                    THEN [pc |-> "returned", exc |-> "",
                          text |-> Slug(k.msg), val |-> JNull]
                    ELSE OperationFailed(text)

\* the rest of the operation `op` once Room._request has returned `text`
AfterRequest(op, text) ==
    LET j == JsonLoads(text)
    IN  CASE op = "request" ->
                [pc |-> "returned", exc |-> "", text |-> text, val |-> JNull]
          [] op = "send" ->
                IF ~j.ok
                THEN [pc |-> "raised", exc |-> "OperationFailedError",
                      text |-> text, val |-> JNull]
                ELSE IF j.v.t = "obj"
                THEN IF j.v.key = "id"
                     THEN [pc |-> "returned", exc |-> "", text |-> <<>>,
                           val |-> JNum(j.v.n)]
                     ELSE [pc |-> "raised", exc |-> "KeyError",
                           text |-> <<>>, val |-> JNull]
                ELSE [pc |-> "raised", exc |-> "TypeError",
                      text |-> <<>>, val |-> JNull]

\* the status Room._request treats as success
IsSuccess(status) == status = 200

IsRatelimitAnyError(status) == status # 200

\* the status Room._request treats as a rate limit
IsRatelimit(status) == status = 409

\* the call k once the answer to its POST has reached Room._request
Answered(k, status, body) ==
    LET got == [k EXCEPT !.status = status, !.body = body]
    IN  IF IsRatelimit(status)
        THEN IF MaxTriesExceeded(k.posts)
             THEN [got EXCEPT !.pc = "raised", !.exc = "RatelimitError",
                              !.tries = @ + 1]
             ELSE [got EXCEPT !.pc = "sleep", !.tries = @ + 1,
                              !.slept = NextWait(RetryAfter(body), k.posts)]
        ELSE IF IsSuccess(status)
        THEN LET r == IF k.op \in {"request", "send"}
                      THEN AfterRequest(k.op, body)
                      ELSE AfterMethod(k, body)
             IN  [got EXCEPT !.pc = r.pc, !.exc = r.exc,
                             !.text = r.text, !.val = r.val]
        ELSE [got EXCEPT !.pc = "raised", !.exc = "OperationFailedError"]

\* the server may answer the POST of the call k with this status (it
\* answers 409 at most MaxTries times to one call)
MayAnswer(k, status) ==
    /\ k.pc = "await"
    /\ IsRatelimit(status) => k.tries < MaxTries

\* the server's answer to the POST of caller c reaches Room._request
Respond(c, status, body) ==
    /\ MayAnswer(calls[c], status)
    /\ calls' = [calls EXCEPT ![c] = Answered(calls[c], status, body)]
    /\ UNCHANGED <<fkey, raw, decoded, ev, room, thr, bot, anon>>

\* the call k once its POST has failed without an answer
Failed(k) ==
    [k EXCEPT !.pc = "raised", !.exc = "ClientError",
              !.status = 0, !.body = <<>>]

\* the POST of caller c fails without an answer
TransportError(c) ==
    /\ calls[c].pc = "await"
    /\ calls' = [calls EXCEPT ![c] = Failed(calls[c])]
    /\ UNCHANGED <<fkey, raw, decoded, ev, room, thr, bot, anon>>

\* the call k once the sleep of the decorator has ended
Woken(k) == [k EXCEPT !.pc = "post", !.slept = 0]

\* the sleep of the decorator ends: Room._request is called again
Wake(c) ==
    /\ calls[c].pc = "sleep"
    /\ calls' = [calls EXCEPT ![c] = Woken(calls[c])]
    /\ UNCHANGED <<fkey, raw, decoded, ev, room, thr, bot, anon>>

\* Room.events has not been called. Of the fields, url is the socket url the
\* last POST of /ws-auth returned and conn the url the open connection was
\* opened with; auth and opens count the POSTs of /ws-auth and the
\* connections opened since the generator started or left a connection, and
\* left says why it left the last one; age is monotonic() - connected_at,
\* ticks the steps the clock has made since, waited the time the pending
\* receive_json has waited and readat the age at which the frame being worked
\* on was received; at is the stage at which the exception exc left the
\* generator; seen is what the last receive_json of the connection brought,
\* and auths has the forms of the POSTs of /ws-auth sent so far.
NoEv ==
    [pc |-> "off", frame |-> <<>>, i |-> 0, log |-> <<>>, exc |-> "",
     at |-> "", url |-> <<>>, conn |-> <<>>, auth |-> 0, opens |-> 0,
     left |-> "", age |-> 0, ticks |-> 0, waited |-> 0, readat |-> 0,
     seen |-> "", auths |-> {}]

\* the Room that Room.join has returned: its session is open and close has
\* not been called
OpenRoom == [pc |-> "open", session |-> "open", leave |-> IdleCall]

\* nothing has been decoded
NoDecoded == [cls |-> "", fields |-> EmptyDict]

InitRequest ==
    /\ fkey \in Fkeys
    /\ calls = [c \in AllCallers |-> IdleCall]
    /\ raw = EmptyDict
    /\ decoded = NoDecoded
    /\ ev = NoEv
    /\ room = OpenRoom
    /\ thr = NoThread
    /\ bot = NoBot
    /\ anon = NoAnon

NextRequest ==
    \/ \E c \in Callers, url \in RequestUrls, data \in RequestData :
          CallRequest(c, url, data)
    \/ \E c \in Callers, m \in Messages, r \in ReplyTos : CallSend(c, m, r)
    \/ \E c \in Callers : Post(c)
    \/ \E c \in Callers, b \in Bodies409 : Respond(c, 409, b)
    \/ \E c \in Callers, b \in Bodies200 : Respond(c, 200, b)
    \/ \E c \in Callers, s \in OtherStatuses : Respond(c, s, ErrBody)
    \/ \E c \in Callers : TransportError(c)
    \/ \E c \in Callers : Wake(c)

SpecRequest == InitRequest /\ [][NextRequest]_vars

-----------------------------------------------------------------------------
(* One caller of the wrappers and of the action methods of Room.           *)

\* the arguments of the methods
MessageIds == {7}
IdSets == {{}, {7}, {7, 8}}
Titles == {<<"M", "y", " ", "1", "!">>}
Slugs == {<<"my1">>}

\* what the server answers with status 200
ActionBodies200 ==
    Bodies200 \cup
    { <<"2">>, <<"1">>, <<"0">>, <<"true">>, <<"\"id\"">>,
      <<"{", "\"ok\"", ":", "1", "}">>,
      <<"{", "\"ok\"", ":", "0", "}">>,
      <<>> }

InitActions == InitRequest

NextActions ==
    \/ \E op \in {"json_request", "ok_request"} :
          CallWrapper("c1", op, LeaveUrl, EmptyDict)
    \/ \E m \in Messages, r \in ReplyTos : CallSend("c1", m, r)
    \/ \E i \in MessageIds : CallEdit("c1", i, <<"hello">>)
    \/ \E op \in DOMAIN NiladRoutes, i \in MessageIds : CallNilad("c1", op, i)
    \/ \E ids \in IdSets : CallMoveMessages("c1", ids, room_id + 1)
    \/ \E t \in Titles : CallBookmark("c1", 7, 8, t)
    \/ \E g \in Slugs : CallDeleteBookmark("c1", g)
    \/ Post("c1")
    \/ \E b \in Bodies409 : Respond("c1", 409, b)
    \/ \E b \in ActionBodies200 : Respond("c1", 200, b)
    \/ \E s \in OtherStatuses : Respond("c1", s, ErrBody)
    \/ TransportError("c1")
    \/ Wake("c1")

SpecActions == InitActions /\ [][NextActions]_vars

-----------------------------------------------------------------------------
(* Properties of the gateway.                                              *)

\* the strings of one or two digits
DigitStrings ==
    {<<Digits[i]>> : i \in 1..10} \cup
    {<<Digits[i], Digits[j]>> : i, j \in 1..10}

\* the bodies of the form 'You can perform this action again in N second(s).'
BackoffSentences ==
    {<<PFX>> \o ds \o <<SEC, "s", ".">> : ds \in DigitStrings} \cup
    {<<PFX>> \o ds \o <<SEC, ".">> : ds \in DigitStrings}

IsBackoffSentence(body) == body \in BackoffSentences

\* the pairs of a body that states n seconds, and n
StatedDelays ==
    {<<(<<PFX>> \o IntToStr(n) \o <<SEC, "s", ".">>), n>> : n \in 0..99} \cup
    {<<(<<PFX>> \o IntToStr(n) \o <<SEC, ".">>), n>> : n \in 0..99}

\* the pairs of a body that reports the id n of a new message, and n
ReportedIds ==
    {<<(<<"{", "\"id\"", ":">> \o IntToStr(n) \o <<"}">>), n>> : n \in 0..99}

\* C1: a call of Room._request that is answered k times 409 and then 200
\* has sent exactly k+1 POSTs, each with the url and the form of the first,
\* and returns the body of the 200; a 409 always leads to a sleep and a
\* retry, and RatelimitError never reaches the caller.
C1_RetryUntilSuccess ==
    \A c \in Callers :
        LET k == calls[c]
        IN  /\ k.exc # "RatelimitError"
            /\ k.status = 409 => k.pc \in {"sleep", "post", "await"}
            /\ k.posts >= 1 => k.last = k.first /\ k.first.url = k.url
            /\ (k.op = "request" /\ k.status = 200) =>
                  /\ k.pc = "returned"
                  /\ k.text = k.body
                  /\ k.posts = k.tries + 1

C1_Witness ==
    \E c \in Callers :
        /\ calls[c].op = "request"
        /\ calls[c].pc = "returned"
        /\ calls[c].tries = 2
        /\ calls[c].posts = 3
        /\ calls[c].text = <<"\"ok\"">>

\* C2: while Room._request sleeps before a retry, the sleep lasts exactly
\* the number of seconds stated in the 409 body just received by this call,
\* however many 409s this call or another call has received.
C2_SleepIsStatedDelay ==
    \A c \in Callers :
        calls[c].pc = "sleep" =>
            \A p \in StatedDelays :
                calls[c].body = p[1] => calls[c].slept = p[2]

C2_Witness ==
    /\ calls["c1"].pc = "sleep"
    /\ calls["c1"].tries = 2
    /\ calls["c1"].body = Sentence(5)
    /\ calls["c1"].slept = 5
    /\ calls["c2"].pc = "sleep"
    /\ calls["c2"].tries = 1
    /\ calls["c2"].body = Sentence(12)
    /\ calls["c2"].slept = 12

\* C3: a 409 whose body is not of the form 'You can perform this action
\* again in N second(s).' raises nothing to the caller: Room._request sleeps
\* exactly 1 second and then posts the same request again.
C3_MalformedBackoffDefaultsToOne ==
    \A c \in Callers :
        LET k == calls[c]
        IN  (k.status = 409 /\ ~IsBackoffSentence(k.body)) =>
                /\ k.exc = ""
                /\ k.pc \in {"sleep", "post", "await"}
                /\ k.pc = "sleep" => k.slept = 1
                /\ k.pc = "await" => k.posts = k.tries + 1 /\ k.last = k.first

C3_Witness ==
    \E c \in Callers :
        /\ calls[c].status = 409
        /\ calls[c].body = Sentence(5) \o <<"\n">>
        /\ calls[c].pc = "await"
        /\ calls[c].posts = 2

\* C4: an answer with a status other than 200 and 409 ends the call of
\* Room._request with OperationFailedError, also after 409 retries, and no
\* further POST follows it.
C4_OtherStatusIsTerminal ==
    \A c \in Callers :
        LET k == calls[c]
        IN  (k.status \notin {0, 200, 409}) =>
                /\ k.pc = "raised"
                /\ k.exc = "OperationFailedError"
                /\ k.posts = k.tries + 1

C4_Witness ==
    \E c \in Callers :
        /\ calls[c].status = 500
        /\ calls[c].tries = 2
        /\ calls[c].pc = "raised"
        /\ calls[c].exc = "OperationFailedError"

\* C5: every POST of Room._request carries the room's token in the field
\* fkey and the caller's other fields unchanged, whatever map the caller
\* gave (its own fkey entry included); the caller's map is not written to.
C5_FkeyInjected ==
    \A c \in Callers :
        LET k == calls[c]
        IN  k.posts >= 1 =>
                /\ DOMAIN k.last.form = DOMAIN k.data \cup {"fkey"}
                /\ k.last.form["fkey"] = fkey
                /\ \A f \in DOMAIN k.data \ {"fkey"} : k.last.form[f] = k.data[f]
                /\ k.arg = k.data

C5_Witness ==
    \E c \in Callers :
        /\ calls[c].posts = 2
        /\ "fkey" \in DOMAIN calls[c].data
        /\ calls[c].data["fkey"] # fkey
        /\ calls["c2"].data = EmptyDict
        /\ calls["c2"].posts = 1

\* C6: Room.send of an empty message raises ValueError without any POST,
\* with or without reply_to; Room.send of a non-empty message posts it and
\* returns the id of the server's answer.
C6_SendValidatesAndReturnsId ==
    \A c \in Callers :
        LET k == calls[c]
        IN  k.op = "send" =>
                /\ k.msg = <<>> =>
                      k.pc = "raised" /\ k.exc = "ValueError" /\ k.posts = 0
                /\ (k.msg # <<>> /\ k.pc # "post") =>
                      /\ k.posts >= 1
                      /\ k.last.url = <<"/chats/", "1", "/messages/new">>
                      /\ k.last.form["text"] =
                            IF k.reply = {} THEN k.msg
                            ELSE <<":", "7", " ">> \o k.msg
                /\ \A p \in ReportedIds :
                      (k.status = 200 /\ k.body = p[1])
                          => k.pc = "returned" /\ k.val = JNum(p[2])

C6_Witness ==
    /\ calls["c1"].op = "send"
    /\ calls["c1"].msg = <<>>
    /\ calls["c1"].reply = {7}
    /\ calls["c1"].exc = "ValueError"
    /\ calls["c2"].op = "send"
    /\ calls["c2"].msg = <<"hello">>
    /\ calls["c2"].pc = "returned"
    /\ calls["c2"].val = JNum(42)

-----------------------------------------------------------------------------
(* The event model: the pydantic models of events.py and EventAdapter.     *)
(* A raw event is a map from field names to values; a value is an int, a   *)
(* bool, None or a str (one that spells neither a number nor a bool, so    *)
(* that no coercion of pydantic's lax mode applies to it).                 *)

VInt(n) == [ty |-> "int", i |-> n, s |-> ""]
VStr(s) == [ty |-> "str", i |-> 0, s |-> s]
VBool(b) == [ty |-> "bool", i |-> IF b THEN 1 ELSE 0, s |-> ""]
VNone == [ty |-> "none", i |-> 0, s |-> ""]
\* a member of the IntEnum EventType
VEnum(n) == [ty |-> "EventType", i |-> n, s |-> ""]

\* the values of the members of EventType
EventTypeValues == (1..22) \cup {29, 30, 34}

\* the tags of Events, the discriminated union
RecognizedTags == {1, 2, 8, 10, 18}

ClassOfTagByContent(tag) ==
    CASE tag = 10 -> "DeleteEvent"
      [] OTHER -> "MessageEvent"

\* the member of Events whose event_type is Literal[tag]
ClassOfTag(tag) ==
    CASE tag = 1 -> "MessageEvent"
      [] tag = 2 -> "EditEvent"
      [] tag = 8 -> "MentionEvent"
      [] tag = 10 -> "DeleteEvent"
      [] tag = 18 -> "ReplyEvent"

BaseMessageFields ==
    {"id", "room_id", "room_name", "message_id", "user_id", "user_name",
     "parent_id", "show_parent", "target_user_id", "message_stars",
     "message_owner_stars", "message_edits", "event_type"}

\* the fields a model class declares
FieldsOf(cls) ==
    CASE cls = "UnknownEvent" -> {"id", "event_type"}
      [] cls = "DeleteEvent" -> BaseMessageFields
      [] OTHER -> BaseMessageFields \cup {"content"}

\* the fields declared with a default
OptionalFields ==
    {"parent_id", "show_parent", "target_user_id", "message_stars",
     "message_owner_stars", "message_edits"}

\* the default a field is declared with
DefaultOf(field) ==
    IF field \in {"message_stars", "message_owner_stars", "message_edits"}
    THEN VInt(0)
    ELSE VNone

\* the annotation of a field
TypeOf(field) ==
    CASE field \in {"id", "room_id", "message_id", "user_id", "message_stars",
                    "message_owner_stars", "message_edits"} -> "int"
      [] field \in {"room_name", "user_name", "content"} -> "str"
      [] field \in {"parent_id", "target_user_id"} -> "Optional[int]"
      [] field = "show_parent" -> "Optional[bool]"
      [] field = "event_type" -> "EventType"

\* does a value validate against an annotation (event_type against the
\* event types in `tags`)
Validates(type, v, tags) ==
    CASE type = "int" -> v.ty \in {"int", "bool"}
      [] type = "str" -> v.ty = "str"
      [] type = "Optional[int]" -> v.ty \in {"int", "bool", "none"}
      [] type = "Optional[bool]" ->
            v.ty \in {"bool", "none"} \/ (v.ty = "int" /\ v.i \in {0, 1})
      [] type = "EventType" -> v.ty = "int" /\ v.i \in tags

\* the value a field gets from a value that validates
Coerced(type, v) ==
    CASE type \in {"int", "Optional[int]"} /\ v.ty = "bool" -> VInt(v.i)
      [] type = "Optional[bool]" /\ v.ty = "int" -> VBool(v.i = 1)
      [] type = "EventType" -> VEnum(v.i)
      [] OTHER -> v

Invalid == [cls |-> "ValidationError", fields |-> EmptyDict]

\* validation of a raw event against one model class, whose event_type must
\* be among `tags`; with extra = "allow" the other fields are kept
ValidateModel(cls, r, tags, allow_extra) ==
    LET fs == FieldsOf(cls)
        ok == \A f \in fs :
                 IF f \in DOMAIN r THEN Validates(TypeOf(f), r[f], tags)
                 ELSE f \in OptionalFields
        kept == IF allow_extra THEN fs \cup DOMAIN r ELSE fs
    IN  IF ~ok THEN Invalid
        ELSE [cls |-> cls,
              fields |-> [f \in kept |->
                            IF f \notin DOMAIN r THEN DefaultOf(f)
                            ELSE IF f \in fs THEN Coerced(TypeOf(f), r[f])
                            ELSE r[f]]]

\* Annotated[Events, Field(discriminator="event_type")]
ValidateEvents(r) ==
    IF /\ "event_type" \in DOMAIN r
       /\ r["event_type"].ty = "int"
       /\ r["event_type"].i \in RecognizedTags
    THEN ValidateModel(ClassOfTag(r["event_type"].i), r,
                       {r["event_type"].i}, FALSE)
    ELSE Invalid

\* event_type: EventType, the annotation of UnknownEvent
IsEventType(n) == n \in EventTypeValues

\* UnknownEvent, with ConfigDict(extra="allow")
ValidateUnknown(r) ==
    ValidateModel("UnknownEvent", r, {n \in 0..99 : IsEventType(n)}, TRUE)

\* EventAdapter.validate_python: the union of Events and UnknownEvent
validate_python(r) ==
    LET e == ValidateEvents(r)
    IN  IF e # Invalid THEN e ELSE ValidateUnknown(r)


\* the raw events that are decoded: an event with every field and one field
\* the models do not declare, with some of its fields left out or given a
\* value of another type
AllFields == BaseMessageFields \cup {"content", "time_stamp"}

FullEvent(tag) ==
    [f \in AllFields |->
        CASE f = "id" -> VInt(100)
          [] f = "event_type" -> VInt(tag)
          [] f = "room_id" -> VInt(1)
          [] f = "room_name" -> VStr("Lab")
          [] f = "message_id" -> VInt(7)
          [] f = "user_id" -> VInt(3)
          [] f = "user_name" -> VStr("ann")
          [] f = "parent_id" -> VInt(6)
          [] f = "show_parent" -> VBool(TRUE)
          [] f = "target_user_id" -> VInt(4)
          [] f = "message_stars" -> VInt(2)
          [] f = "message_owner_stars" -> VInt(1)
          [] f = "message_edits" -> VInt(1)
          [] f = "content" -> VStr("hi")
          [] f = "time_stamp" -> VInt(1700)]

Without(r, fs) == [f \in DOMAIN r \ fs |-> r[f]]

InputTags == RecognizedTags \cup {3, 22, 23, 99}

LeftOut ==
    {{}} \cup {{f} : f \in AllFields} \cup
    {OptionalFields, OptionalFields \cup {"time_stamp"}}

RawEvents ==
    {Without(FullEvent(t), fs) : t \in InputTags, fs \in LeftOut} \cup
    {[FullEvent(t) EXCEPT !["id"] = VStr("x")] : t \in InputTags} \cup
    {[FullEvent(t) EXCEPT !["content"] = VInt(5)] : t \in InputTags} \cup
    {[FullEvent(t) EXCEPT !["message_stars"] = VNone] : t \in InputTags}

\* EventAdapter.validate_python(raw)
Decode ==
    /\ decoded = NoDecoded
    /\ decoded' = validate_python(raw)
    /\ UNCHANGED <<fkey, calls, raw, ev, room, thr, bot, anon>>

InitDecode ==
    /\ fkey \in Fkeys
    /\ calls = [c \in AllCallers |-> IdleCall]
    /\ raw \in RawEvents
    /\ decoded = NoDecoded
    /\ ev = NoEv
    /\ room = OpenRoom
    /\ thr = NoThread
    /\ bot = NoBot
    /\ anon = NoAnon

NextDecode == Decode

SpecDecode == InitDecode /\ [][NextDecode]_vars

-----------------------------------------------------------------------------
(* Properties of the event model.                                          *)

\* the raw event has an integer event_type
HasIntTag(r) == "event_type" \in DOMAIN r /\ r["event_type"].ty = "int"

\* the decoded event has the field f of the raw event, with its value
Preserves(d, r, f) ==
    /\ f \in DOMAIN d.fields
    /\ d.fields[f].i = r[f].i
    /\ d.fields[f].s = r[f].s
    /\ f # "event_type" => d.fields[f].ty = r[f].ty

\* C7: a raw event whose integer event_type is none of 1, 2, 8, 10, 18 (a
\* member of EventType or not) decodes to an UnknownEvent that has every
\* field of the raw event; decoding it never raises.
C7_UnknownTagDecodesToUnknownEvent ==
    (decoded # NoDecoded /\ HasIntTag(raw)
        /\ raw["event_type"].i \notin {1, 2, 8, 10, 18}) =>
            /\ decoded.cls = "UnknownEvent"
            /\ \A f \in DOMAIN raw : Preserves(decoded, raw, f)

\* the raw event has every field its tag requires, and its fields have
\* values of the declared types
WellFormed(r) ==
    /\ HasIntTag(r)
    /\ r["event_type"].i \in {1, 2, 8, 10, 18}
    /\ \A f \in {"id", "room_id", "message_id", "user_id"} :
          f \in DOMAIN r /\ r[f].ty = "int"
    /\ \A f \in {"room_name", "user_name"} : f \in DOMAIN r /\ r[f].ty = "str"
    /\ r["event_type"].i # 10 => "content" \in DOMAIN r /\ r["content"].ty = "str"
    /\ \A f \in {"message_stars", "message_owner_stars", "message_edits"} :
          f \in DOMAIN r => r[f].ty = "int"

\* C8: a raw event with a recognized tag and every required field decodes
\* to the class of its tag (1 MessageEvent, 2 EditEvent, 8 MentionEvent,
\* 10 DeleteEvent, 18 ReplyEvent); each optional field it does not have is
\* None (parent_id, show_parent, target_user_id) or 0 (message_stars,
\* message_owner_stars, message_edits), and each field it has is kept.
C8_RecognizedTagDecodesToItsClass ==
    (decoded # NoDecoded /\ WellFormed(raw)) =>
        /\ decoded.cls =
              (CASE raw["event_type"].i = 1 -> "MessageEvent"
                 [] raw["event_type"].i = 2 -> "EditEvent"
                 [] raw["event_type"].i = 8 -> "MentionEvent"
                 [] raw["event_type"].i = 10 -> "DeleteEvent"
                 [] raw["event_type"].i = 18 -> "ReplyEvent")
        /\ \A f \in {"parent_id", "show_parent", "target_user_id"} \ DOMAIN raw :
              f \in DOMAIN decoded.fields /\ decoded.fields[f].ty = "none"
        /\ \A f \in {"message_stars", "message_owner_stars", "message_edits"}
                      \ DOMAIN raw :
              f \in DOMAIN decoded.fields /\ decoded.fields[f] = VInt(0)
        /\ \A f \in DOMAIN raw \ {"time_stamp"} :
              (f = "content" /\ raw["event_type"].i = 10)
                  \/ Preserves(decoded, raw, f)

C8_Witness ==
    /\ decoded.cls = "ReplyEvent"
    /\ DOMAIN raw \cap OptionalFields = {}
    /\ decoded.fields["message_edits"] = VInt(0)
    /\ decoded.fields["parent_id"] = VNone

-----------------------------------------------------------------------------
(* The event stream of a room: the generator Room.events.                  *)
(*                                                                         *)
(* ev.pc is where the generator is suspended: "fetch" in the POST of       *)
(* /ws-auth, "connect" in ws_connect, "recv" in receive_json, "ack" in the *)
(* call of Room._request for the event frame[i], "yielded" at `yield` with *)
(* the event frame[i] handed to the consumer; "raised" once an exception   *)
(* has left the generator. ev.log lists, for the frame being worked on,    *)
(* the POSTs of Room._request and the yields, in order; the event yielded  *)
(* for frame[i] is validate_python(frame[i]).                              *)

\* f"r{self.room_id}"
RoomKey(rid) == <<"r">> \o IntToStr(rid)

\* the raw events the server sends in frames
GoodMessage == FullEvent(1)
GoodMention ==
    [Without(FullEvent(8), OptionalFields) EXCEPT !["message_id"] = VInt(42)]
GoodReply == [FullEvent(18) EXCEPT !["message_id"] = VInt(105)]
UserEntered == Without(FullEvent(3), BaseMessageFields \ {"id", "event_type"})
NoContent == Without(FullEvent(1), {"content"})
BadId == [FullEvent(2) EXCEPT !["id"] = VStr("x")]

FrameEvents ==
    {GoodMessage, GoodMention, GoodReply, UserEntered, NoContent, BadId}

RECURSIVE SeqsUpTo(_, _)
SeqsUpTo(S, n) ==
    IF n = 0 THEN {<<>>}
    ELSE LET shorter == SeqsUpTo(S, n - 1)
         IN  shorter \cup {Append(q, x) : q \in shorter, x \in S}

\* the value of a room's key in a message: a dict that has the key "e" or
\* not, and other keys or not
RoomBody(has_e, events, other) == [has_e |-> has_e, e |-> events, other |-> other]

\* the messages receive_json returns: JSON that is a dict with the bodies
\* of rooms, or JSON that is no dict
DictMessage(rooms) == [dict |-> TRUE, rooms |-> rooms]
ListMessage == [dict |-> FALSE, rooms |-> EmptyDict]

Frames ==
    {DictMessage(RoomKey(room_id) :> RoomBody(TRUE, es, FALSE)) :
        es \in SeqsUpTo(FrameEvents, MaxFrameLen)} \cup
    { DictMessage(EmptyDict),
      DictMessage(RoomKey(room_id + 1) :> RoomBody(TRUE, <<GoodMention>>, FALSE)),
      DictMessage(RoomKey(room_id) :> RoomBody(FALSE, <<>>, FALSE)),
      DictMessage(RoomKey(room_id) :> RoomBody(FALSE, <<>>, TRUE)),
      ListMessage }

EventsOfAnyRoom(message) ==
    IF message.rooms = EmptyDict THEN <<>>
    ELSE LET key == CHOOSE k \in DOMAIN message.rooms : TRUE
             body == message.rooms[key]
         IN  IF body.has_e THEN body.e ELSE <<>>

\* the condition of the loop over event_data: the events of this room in
\* the message (<<>> when the loop is not entered)
EventsOf(message) ==
    LET key == RoomKey(room_id)
    IN  IF key \notin DOMAIN message.rooms THEN <<>>
        ELSE LET body == message.rooms[key]
             IN  IF (body.has_e \/ body.other) /\ body.has_e THEN body.e
                 ELSE <<>>

\* what a message is to the condition of the loop over event_data: no
\* object, an object without the key of the room, with {} under the key,
\* with an object without 'e' under the key, or with a list of events
FrameCase(message) ==
    IF ~message.dict THEN "nodict"
    ELSE IF RoomKey(room_id) \notin DOMAIN message.rooms THEN "nokey"
    ELSE LET body == message.rooms[RoomKey(room_id)]
         IN  IF body.has_e THEN "events"
             ELSE IF body.other THEN "no_e" ELSE "empty"

NeedsAckAnyMessage(cls) ==
    cls \in {"MessageEvent", "EditEvent", "MentionEvent", "ReplyEvent"}

\* isinstance(event, (MentionEvent, ReplyEvent))
NeedsAck(cls) == cls \in {"MentionEvent", "ReplyEvent"}

\* the entry of ev.log for a POST of the call k made for frame[i]
PostEntry(i, k) ==
    [kind |-> "post", idx |-> i, url |-> k.last.url, form |-> k.last.form,
     cls |-> ""]

\* the entry of ev.log for the yield of d, decoded from frame[i]
YieldEntry(i, d) ==
    [kind |-> "yield", idx |-> i, url |-> <<>>, form |-> EmptyDict,
     cls |-> d.cls]

\* the call self._request("/messages/ack", {"id": str(event.message_id)}),
\* up to its POST
AckCall(d, fk) ==
    LET data == "id" :> IntToStr(d.fields["message_id"].i)
    IN  Posted([IdleCall EXCEPT !.pc = "post", !.op = "request",
                                !.url = AckUrl, !.data = data, !.arg = data],
               fk)

\* the age at which a connection is reset
RESET_INTERVAL == 60 * 60 * 2

\* connection.receive_json(timeout=45)
ReceiveTimeout == 45

\* the socket urls the server hands out
Urls == {<<"ws1">>, <<"ws2">>}

SocketAuthFormEmptyToken(fk) ==
    ("fkey" :> <<>>) @@ ("roomid" :> IntToStr(room_id))

\* data={"fkey": self._fkey, "roomid": self.room_id}, the form that
\* Room._socket_urls posts to /ws-auth
SocketAuthForm(fk) ==
    ("fkey" :> fk) @@ ("roomid" :> IntToStr(room_id))

\* the generator that has just been started: it is in the POST of /ws-auth
Started ==
    [NoEv EXCEPT !.pc = "fetch", !.auth = 1, !.auths = {SocketAuthForm(fkey)}]

\* the generator leaves the `while True` loop with `break`: the connection
\* is closed and _socket_urls sends the next POST of /ws-auth
Leave(e, why) ==
    [e EXCEPT !.pc = "fetch", !.frame = <<>>, !.i = 0, !.log = <<>>,
              !.left = why, !.auth = 1, !.opens = 0, !.conn = <<>>,
              !.age = 0, !.ticks = 0, !.waited = 0, !.readat = 0,
              !.auths = @ \cup {SocketAuthForm(fkey)}]

ResetDueLate(age) == age > RESET_INTERVAL

\* monotonic() - connected_at >= RESET_INTERVAL
ResetDue(age) == age >= RESET_INTERVAL

\* the generator runs from the top of the `while True` loop to receive_json,
\* or leaves the loop when the connection is RESET_INTERVAL old; the frame
\* it has worked on is gone
LoopTop(e) ==
    IF ResetDue(e.age)
    THEN Leave(e, "reset")
    ELSE [e EXCEPT !.pc = "recv", !.frame = <<>>, !.i = 0, !.log = <<>>,
                   !.waited = 0, !.readat = 0]

\* the generator runs from event i of the frame to where it suspends next
RunFrom(e, k, i, fk) ==
    IF i > Len(e.frame)
    THEN [ev |-> LoopTop(e), call |-> IdleCall]
    ELSE LET d == validate_python(e.frame[i])
         IN  IF d = Invalid
             THEN [ev |-> [e EXCEPT !.pc = "raised", !.i = i,
                                    !.exc = "ValidationError",
                                    !.at = "decode"],
                   call |-> k]
             ELSE IF NeedsAck(d.cls)
             THEN LET a == AckCall(d, fk)
                  IN  [ev |-> [e EXCEPT !.pc = "ack", !.i = i,
                                        !.log = Append(@, PostEntry(i, a))],
                       call |-> a]
             ELSE [ev |-> [e EXCEPT !.pc = "yielded", !.i = i,
                                    !.log = Append(@, YieldEntry(i, d))],
                   call |-> k]

\* the consumer starts to iterate Room.events(): the generator runs to the
\* POST of /ws-auth
StartEvents ==
    /\ ev.pc = "off"
    /\ room.pc = "open"
    /\ ev' = Started
    /\ UNCHANGED <<fkey, calls, raw, decoded, room, thr, bot, anon>>

\* the POST of /ws-auth is answered with the socket url u
FetchUrlOk(u) ==
    /\ ev.pc = "fetch"
    /\ room.session = "open"
    /\ ev' = [ev EXCEPT !.pc = "connect", !.url = u, !.seen = ""]
    /\ UNCHANGED <<fkey, calls, raw, decoded, room, thr, bot, anon>>

\* the POST of /ws-auth fails, is answered with an error status or with
\* JSON that has no url
FetchUrlFail(exc) ==
    /\ ev.pc = "fetch"
    /\ ev' = [ev EXCEPT !.pc = "raised", !.exc = exc, !.at = "fetch",
                        !.seen = ""]
    /\ UNCHANGED <<fkey, calls, raw, decoded, room, thr, bot, anon>>

\* ws_connect(url) succeeds; connected_at = monotonic()
ConnectOk ==
    /\ ev.pc = "connect"
    /\ ev' = LoopTop([ev EXCEPT !.conn = ev.url, !.opens = @ + 1, !.age = 0])
    /\ UNCHANGED <<fkey, calls, raw, decoded, room, thr, bot, anon>>

\* ws_connect fails
ConnectFail ==
    /\ ev.pc = "connect"
    /\ ev' = [ev EXCEPT !.pc = "raised", !.exc = "WSServerHandshakeError",
                        !.at = "connect"]
    /\ UNCHANGED <<fkey, calls, raw, decoded, room, thr, bot, anon>>

ReceiveRaisedToConsumer(e, why) ==
    [e EXCEPT !.pc = "raised", !.exc = why, !.at = "recv"]

\* the generator once receive_json has raised for the reason why: `except
\* Exception` logs a warning and leaves the loop
ReceiveRaised(e, why) == Leave(e, why)

\* receive_json raises: it has waited ReceiveTimeout ("timeout") or the
\* socket is closed ("closed")
ReceiveFail(why) ==
    /\ ev.pc = "recv"
    /\ ev' = [ReceiveRaised(ev, why) EXCEPT !.seen = "raised"]
    /\ UNCHANGED <<fkey, calls, raw, decoded, room, thr, bot, anon>>

\* the generator, in receive_json, once the message has arrived
Received(e, message, k, fk) ==
    IF ~message.dict
    THEN [ev |-> [e EXCEPT !.pc = "raised", !.exc = "AttributeError",
                           !.at = "frame", !.frame = <<>>, !.i = 0,
                           !.log = <<>>, !.readat = e.age,
                           !.seen = FrameCase(message)],
          call |-> k]
    ELSE RunFrom([e EXCEPT !.frame = EventsOf(message), !.i = 0,
                           !.log = <<>>, !.readat = e.age,
                           !.seen = FrameCase(message)],
                 k, 1, fk)

\* receive_json returns a message
ReceiveFrame(message) ==
    /\ ev.pc = "recv"
    /\ LET r == Received(ev, message, calls[Loop], fkey)
       IN  /\ ev' = r.ev
           /\ calls' = [calls EXCEPT ![Loop] = r.call]
    /\ UNCHANGED <<fkey, raw, decoded, room, thr, bot, anon>>

\* the message json.loads makes of a JSON value: an object of the JSON
\* above has no key of a room
MessageOf(v) == IF v.t = "obj" THEN DictMessage(EmptyDict) ELSE ListMessage

\* a text frame arrives and receive_json hands it to json.loads: a text
\* that is no JSON makes receive_json raise JSONDecodeError
ReceiveText(text) ==
    /\ ev.pc = "recv"
    /\ LET j == JsonLoads(text)
           r == IF j.ok
                THEN Received(ev, MessageOf(j.v), calls[Loop], fkey)
                ELSE [ev |-> [ReceiveRaised(ev, "JSONDecodeError")
                                EXCEPT !.seen = "raised"],
                      call |-> calls[Loop]]
       IN  /\ ev' = r.ev
           /\ calls' = [calls EXCEPT ![Loop] = r.call]
    /\ UNCHANGED <<fkey, raw, decoded, room, thr, bot, anon>>

\* time passes while the generator is suspended on an open connection:
\* receive_json waits less than ReceiveTimeout for a message. The clock is
\* followed until the reset of the connection is due.
Tick(d) ==
    /\ ev.pc \in {"recv", "ack", "yielded"}
    /\ ev.ticks < MaxTicks
    /\ ev.age < RESET_INTERVAL
    /\ ev.pc = "recv" => ev.waited + d < ReceiveTimeout
    /\ ev' = [ev EXCEPT !.age = @ + d, !.ticks = @ + 1,
                        !.waited = IF ev.pc = "recv" THEN @ + d ELSE @]
    /\ UNCHANGED <<fkey, calls, raw, decoded, room, thr, bot, anon>>

AfterAckYieldsOn409(e, k) ==
    CASE k.pc \in {"returned", "sleep"} ->
            [e EXCEPT !.pc = "yielded",
                      !.log = Append(@, YieldEntry(e.i, validate_python(e.frame[e.i])))]
      [] k.pc = "raised" -> [e EXCEPT !.pc = "raised", !.exc = k.exc,
                                      !.at = "ack"]
      [] OTHER -> e

\* the generator once the call of Room._request for frame[i] is in state k
AfterAck(e, k) ==
    CASE k.pc = "returned" ->
            [e EXCEPT !.pc = "yielded",
                      !.log = Append(@, YieldEntry(e.i, validate_python(e.frame[e.i])))]
      [] k.pc = "raised" -> [e EXCEPT !.pc = "raised", !.exc = k.exc,
                                      !.at = "ack"]
      [] OTHER -> e

\* the server answers the POST of the acknowledgment
AckAnswer(status, body) ==
    /\ ev.pc = "ack"
    /\ MayAnswer(calls[Loop], status)
    /\ LET k == Answered(calls[Loop], status, body)
       IN  /\ calls' = [calls EXCEPT ![Loop] = k]
           /\ ev' = AfterAck(ev, k)
    /\ UNCHANGED <<fkey, raw, decoded, room, thr, bot, anon>>

\* the POST of the acknowledgment fails without an answer
AckTransportError ==
    /\ ev.pc = "ack"
    /\ calls[Loop].pc = "await"
    /\ LET k == Failed(calls[Loop])
       IN  /\ calls' = [calls EXCEPT ![Loop] = k]
           /\ ev' = AfterAck(ev, k)
    /\ UNCHANGED <<fkey, raw, decoded, room, thr, bot, anon>>

\* the sleep after a 409 ends and the acknowledgment is posted again
AckRetry ==
    /\ ev.pc = "ack"
    /\ calls[Loop].pc = "sleep"
    /\ LET k == Posted(Woken(calls[Loop]), fkey)
       IN  /\ calls' = [calls EXCEPT ![Loop] = k]
           /\ ev' = [ev EXCEPT !.log = Append(@, PostEntry(ev.i, k))]
    /\ UNCHANGED <<fkey, raw, decoded, room, thr, bot, anon>>

SameEvent(i) == i

\* `for event_data in events` goes from the event i to the next one
NextEvent(i) == i + 1

\* the consumer asks for the next event
ConsumerNext ==
    /\ ev.pc = "yielded"
    /\ LET r == RunFrom(ev, calls[Loop], NextEvent(ev.i), fkey)
       IN  /\ ev' = r.ev
           /\ calls' = [calls EXCEPT ![Loop] = r.call]
    /\ UNCHANGED <<fkey, raw, decoded, room, thr, bot, anon>>

\* what the server answers to an acknowledgment
AckBodies409 == {Sentence(5), <<"x">>}
AckBodies200 == {<<"\"ok\"">>}

\* the exceptions of a POST of /ws-auth: the request fails, the status is
\* an error (raise_for_status), the JSON has no "url"
FetchErrors == {"ClientError", "ClientResponseError", "KeyError"}

InitEvents ==
    /\ fkey \in Fkeys
    /\ calls = [c \in AllCallers |-> IdleCall]
    /\ raw = EmptyDict
    /\ decoded = NoDecoded
    /\ ev = Started
    /\ room = OpenRoom
    /\ thr = NoThread
    /\ bot = NoBot
    /\ anon = NoAnon

NextEvents ==
    \/ FetchUrlOk(<<"ws1">>)
    \/ \E exc \in FetchErrors : FetchUrlFail(exc)
    \/ ConnectOk
    \/ ConnectFail
    \/ ev.pc = "recv" /\ \E m \in Frames : ReceiveFrame(m)
    \/ \E b \in AckBodies409 : AckAnswer(409, b)
    \/ \E b \in AckBodies200 : AckAnswer(200, b)
    \/ \E s \in OtherStatuses : AckAnswer(s, ErrBody)
    \/ AckTransportError
    \/ AckRetry
    \/ ConsumerNext

SpecEvents == InitEvents /\ [][NextEvents]_vars

-----------------------------------------------------------------------------
(* The connection loop of Room.events with its clock: the same generator,  *)
(* fed with few frames, with text frames, and with time passing.           *)

\* the frames of the connection loop
LoopEvents == {GoodMention, UserEntered}
LoopFrames ==
    {DictMessage(RoomKey(room_id) :> RoomBody(TRUE, es, FALSE)) :
        es \in SeqsUpTo(LoopEvents, 1)} \cup {ListMessage}

\* frames without events for the room: no key at all, the key of another
\* room, {} under the key of the room, an object without 'e' under it
SkippedFrames ==
    { DictMessage(EmptyDict),
      DictMessage(RoomKey(room_id + 1) :> RoomBody(TRUE, <<GoodMention>>, FALSE)),
      DictMessage(RoomKey(room_id) :> RoomBody(FALSE, <<>>, FALSE)),
      DictMessage(RoomKey(room_id) :> RoomBody(FALSE, <<>>, TRUE)) }

\* the text frames: empty, no JSON, JSON that is no object, an object
FrameTexts == {<<>>, <<"x">>, <<"4", "2">>, <<"{", "}">>}

\* the times that pass in one step
Elapses == {ReceiveTimeout - 1, RESET_INTERVAL - 1, RESET_INTERVAL}

InitLoop ==
    /\ fkey \in Fkeys
    /\ calls = [c \in AllCallers |-> IdleCall]
    /\ raw = EmptyDict
    /\ decoded = NoDecoded
    /\ ev = NoEv
    /\ room = OpenRoom
    /\ thr = NoThread
    /\ bot = NoBot
    /\ anon = NoAnon

NextLoop ==
    \/ StartEvents
    \/ \E u \in Urls : FetchUrlOk(u)
    \/ \E exc \in FetchErrors : FetchUrlFail(exc)
    \/ ConnectOk
    \/ ConnectFail
    \/ \E why \in {"timeout", "closed"} : ReceiveFail(why)
    \/ ev.pc = "recv" /\ \E m \in LoopFrames \cup SkippedFrames : ReceiveFrame(m)
    \/ ev.pc = "recv" /\ \E t \in FrameTexts : ReceiveText(t)
    \/ \E d \in Elapses : Tick(d)
    \/ \E b \in AckBodies409 : AckAnswer(409, b)
    \/ \E b \in AckBodies200 : AckAnswer(200, b)
    \/ \E s \in OtherStatuses : AckAnswer(s, ErrBody)
    \/ AckTransportError
    \/ AckRetry
    \/ ConsumerNext

SpecLoop == InitLoop /\ [][NextLoop]_vars

-----------------------------------------------------------------------------
(* Properties of the event stream.                                         *)

\* a raw event with a recognized tag that fails the schema of its tag
Malformed(r) ==
    /\ HasIntTag(r)
    /\ r["event_type"].i \in {1, 2, 8, 10, 18}
    /\ ~WellFormed(r)

\* the events of the frame that the generator is done with: yielded, or
\* skipped
DoneWith == IF ev.pc = "yielded" THEN 1..ev.i ELSE 1..(ev.i - 1)

\* the indices of the events of the frame yielded so far
YieldedIdx == {ev.log[i].idx : i \in {j \in 1..Len(ev.log) : ev.log[j].kind = "yield"}}

\* C9: while Room.events works on a frame that has well-formed events and
\* one event with a recognized tag that fails its schema, the events it has
\* yielded are the well-formed ones it has come to, in the order of the
\* frame, the malformed one is not among them, and no ValidationError ends
\* the stream.
C9_MalformedEventIsSkipped ==
    (/\ Cardinality({j \in 1..Len(ev.frame) : Malformed(ev.frame[j])}) = 1
     /\ \E j \in 1..Len(ev.frame) : ~Malformed(ev.frame[j])) =>
        /\ ev.exc # "ValidationError"
        /\ ev.pc \in {"ack", "yielded"} =>
              /\ YieldedIdx = {j \in DoneWith : ~Malformed(ev.frame[j])}
              /\ \A a, b \in 1..Len(ev.log) :
                    (a < b /\ ev.log[a].kind = "yield" /\ ev.log[b].kind = "yield")
                        => ev.log[a].idx < ev.log[b].idx

\* C10: an event yielded as MentionEvent or ReplyEvent (every well-formed
\* event of tag 8 or 18) comes right after a POST made for it, and every
\* POST of the generator is made for an event of tag 8 or 18, goes to
\* /messages/ack and carries the message_id of that event as its id.
C10_AckBeforeDelivery ==
    \A i \in 1..Len(ev.log) :
        LET x == ev.log[i]
            r == ev.frame[x.idx]
        IN  /\ (x.kind = "yield" /\
                 (x.cls \in {"MentionEvent", "ReplyEvent"} \/
                  (WellFormed(r) /\ r["event_type"].i \in {8, 18}))) =>
                    /\ i > 1
                    /\ ev.log[i - 1].kind = "post"
                    /\ ev.log[i - 1].idx = x.idx
            /\ x.kind = "post" =>
                    /\ r["event_type"].i \in {8, 18}
                    /\ x.url = <<"/messages/ack">>
                    /\ "id" \in DOMAIN x.form
                    /\ Len(x.form["id"]) >= 1
                    /\ x.form["id"][1] # "0"
                    /\ ParseInt(x.form["id"]) = r["message_id"].i

C10_Witness ==
    /\ \E i \in 3..Len(ev.log) :
          /\ ev.log[i].kind = "yield"
          /\ ev.log[i].cls = "ReplyEvent"
          /\ ev.log[i - 1].kind = "post"
          /\ ev.log[i - 2].kind = "post"
          /\ ev.log[i - 1].form["id"] = <<"1", "0", "5">>
    /\ \E j \in 1..Len(ev.log) :
          /\ ev.log[j].kind = "yield"
          /\ ev.log[j].cls = "MessageEvent"
    /\ \E j \in 1..Len(ev.log) :
          /\ ev.log[j].kind = "yield"
          /\ ev.log[j].cls = "UnknownEvent"

\* C11: once the acknowledgment call made for an event has failed, that
\* event is delivered all the same: the generator is at the `yield` of the
\* event and has not raised.
C11_AckFailureDoesNotStopDelivery ==
    calls[Loop].pc = "raised" =>
        /\ ev.pc = "yielded"
        /\ ev.log[Len(ev.log)].kind = "yield"
        /\ ev.log[Len(ev.log)].idx = ev.i

\* the places of the yields in ev.log
Yields == {j \in 1..Len(ev.log) : ev.log[j].kind = "yield"}

\* C16: the events yielded from a frame are events of its "e" array, each
\* yielded once and in the order of the array, the event at `yield` is the
\* last one yielded, and the generator turns to another frame only when the
\* last event of the frame has been yielded.
C16_DeliveredInOrder ==
    /\ [](/\ \A a \in Yields :
                /\ ev.log[a].idx \in 1..Len(ev.frame)
                /\ ev.log[a].cls = validate_python(ev.frame[ev.log[a].idx]).cls
          /\ \A a, b \in Yields : a < b => ev.log[a].idx < ev.log[b].idx
          /\ ev.pc = "yielded" =>
                /\ Len(ev.log) \in Yields
                /\ ev.log[Len(ev.log)].idx = ev.i)
    /\ [][(ev.frame # <<>> /\ ev'.frame # ev.frame) =>
             /\ ev.pc = "yielded"
             /\ ev.i = Len(ev.frame)
             /\ Cardinality(Yields) = Len(ev.frame)]_vars

C16_Witness ==
    /\ Len(ev.frame) = 3
    /\ ev.pc = "yielded"
    /\ ev.i = 3
    /\ Cardinality(Yields) = 3
    /\ ev.frame[1] = GoodReply
    /\ ev.frame[2] = UserEntered
    /\ ev.frame[3] = GoodMessage

-----------------------------------------------------------------------------
(* Properties of the connection loop.                                      *)

\* the generator has an open connection
Connected == ev.pc \in {"recv", "ack", "yielded"}

\* C12: a receive that times out or finds the socket closed raises nothing;
\* after it the generator has made one POST of /ws-auth, and once it is
\* connected again it has opened one connection, to the url that POST
\* returned.
C12_ReceiveFailureReconnects ==
    /\ ev.at # "recv"
    /\ ev.left \in {"timeout", "closed"} =>
          /\ ev.auth = 1
          /\ ev.pc \in {"fetch", "connect"} => (ev.opens = 0 /\ ev.conn = <<>>)
          /\ Connected => (ev.opens = 1 /\ ev.conn = ev.url)

C12_Witness ==
    /\ ev.left = "timeout"
    /\ ev.pc = "yielded"
    /\ ev.conn = <<"ws2">>
    /\ validate_python(ev.frame[ev.i]).cls = "MentionEvent"

\* C13, as claimed: no receive is started on a connection that is
\* RESET_INTERVAL old, the generator leaves such a connection for a new one,
\* and no frame is read from a connection at that age.
C13_NoReadAtResetAge ==
    /\ ev.pc = "recv" => ev.age - ev.waited < RESET_INTERVAL
    /\ ev.left = "reset" => (ev.auth = 1 /\ (Connected => ev.conn = ev.url))
    /\ ev.readat < RESET_INTERVAL

\* C13, amended: no receive is started on a connection that is
\* RESET_INTERVAL old, the generator leaves such a connection for a new one,
\* and a receive waits less than ReceiveTimeout: no frame is read from a
\* connection at the age RESET_INTERVAL + ReceiveTimeout or later.
C13_NoReceiveStartedAtResetAge ==
    /\ ev.pc = "recv" =>
          /\ ev.age - ev.waited < RESET_INTERVAL
          /\ ev.waited < ReceiveTimeout
    /\ ev.left = "reset" =>
          /\ ev.auth = 1
          /\ ev.pc \in {"fetch", "connect"} => (ev.opens = 0 /\ ev.conn = <<>>)
          /\ Connected => (ev.opens = 1 /\ ev.conn = ev.url)
    /\ ev.readat < RESET_INTERVAL + ReceiveTimeout

C13_Witness ==
    /\ ev.left = "reset"
    /\ ev.pc = "yielded"
    /\ ev.readat >= RESET_INTERVAL

\* C14: a failed POST of /ws-auth does not end the event stream.
C14_FetchFailureIsRetried == ~(ev.pc = "raised" /\ ev.at = "fetch")

\* C15: a frame that is no JSON, is empty or is JSON of the wrong shape makes
\* the generator neither leave the connection nor raise.
C15_MalformedFrameIsSkipped ==
    /\ ev.left # "JSONDecodeError"
    /\ ~(ev.pc = "raised" /\ ev.at = "frame")

\* C17: no exception leaves the generator, whatever the server does.
C17_NoTerminalState == ev.pc # "raised"

-----------------------------------------------------------------------------
(* The life of a Room: Room.join, the start of Room.events, Room.close     *)
(* (also called by __aexit__).                                             *)
(*                                                                         *)
(* room.pc is "none" before Room.join, "joining" while Room.join awaits    *)
(* the token, "open" once it has returned the Room, "leaving" while        *)
(* Room.close awaits Room._request, "closed" once Room.close has returned  *)
(* and "failed" once it has raised; room.session is the ClientSession of   *)
(* the Room and room.leave the call of Room._request made by Room.close.   *)

\* no Room yet
NoRoom == [pc |-> "none", session |-> "none", leave |-> IdleCall]

\* Room.join up to its await: session = credentials._session()
JoinStart ==
    /\ room.pc = "none"
    /\ room' = [room EXCEPT !.pc = "joining", !.session = "open"]
    /\ UNCHANGED <<fkey, calls, raw, decoded, ev, thr, bot, anon>>

\* Credentials._scrape_fkey returns the token fk: Room.join returns
\* Room(room_id, user_id, session, fkey)
JoinReturn(fk) ==
    /\ room.pc = "joining"
    /\ fkey' = fk
    /\ room' = [room EXCEPT !.pc = "open"]
    /\ UNCHANGED <<calls, raw, decoded, ev, thr, bot, anon>>

\* Credentials._scrape_fkey raises: so does Room.join
JoinFail ==
    /\ room.pc = "joining"
    /\ room' = [room EXCEPT !.pc = "join_failed"]
    /\ UNCHANGED <<fkey, calls, raw, decoded, ev, thr, bot, anon>>

\* Room.close keeps no count of the answers to its call: the server may
\* answer 409 to it any number of times
NoHistory(k) == [k EXCEPT !.tries = 0, !.posts = 0]

\* Room.close once its call of Room._request is in state k: it closes the
\* session when the call has returned
AfterLeave(r, k) ==
    CASE k.pc = "returned" ->
            [r EXCEPT !.pc = "closed", !.session = "closed", !.leave = k]
      [] k.pc = "raised" -> [r EXCEPT !.pc = "failed", !.leave = k]
      [] OTHER -> [r EXCEPT !.leave = k]

\* Room.close is called: self._request(f"/chats/leave/{self.room_id}",
\* {"quiet": "true"}), up to its POST
Close ==
    /\ room.pc = "open"
    /\ LET data == "quiet" :> <<"true">>
           k == Posted([IdleCall EXCEPT !.pc = "post", !.op = "request",
                                        !.url = LeaveUrl, !.data = data,
                                        !.arg = data],
                       fkey)
       IN  room' = [room EXCEPT !.pc = "leaving", !.leave = NoHistory(k)]
    /\ UNCHANGED <<fkey, calls, raw, decoded, ev, thr, bot, anon>>

\* the server answers the POST of Room.close
CloseAnswer(status, body) ==
    /\ room.pc = "leaving"
    /\ room.leave.pc = "await"
    /\ room' = AfterLeave(room, NoHistory(Answered(room.leave, status, body)))
    /\ UNCHANGED <<fkey, calls, raw, decoded, ev, thr, bot, anon>>

\* the POST of Room.close fails without an answer (the total timeout of the
\* session included)
CloseTransportError ==
    /\ room.pc = "leaving"
    /\ room.leave.pc = "await"
    /\ room' = AfterLeave(room, Failed(room.leave))
    /\ UNCHANGED <<fkey, calls, raw, decoded, ev, thr, bot, anon>>

\* the sleep after a 409 ends and Room.close posts again
CloseRetry ==
    /\ room.pc = "leaving"
    /\ room.leave.pc = "sleep"
    /\ room' = [room EXCEPT !.leave = NoHistory(Posted(Woken(room.leave), fkey))]
    /\ UNCHANGED <<fkey, calls, raw, decoded, ev, thr, bot, anon>>

\* the POST of Room.close ends, one way or another
CloseOutcome ==
    \/ \E b \in Bodies409 : CloseAnswer(409, b)
    \/ \E b \in Bodies200 : CloseAnswer(200, b)
    \/ \E s \in OtherStatuses : CloseAnswer(s, ErrBody)
    \/ CloseTransportError

InitRoom ==
    /\ fkey = <<>>
    /\ calls = [c \in AllCallers |-> IdleCall]
    /\ raw = EmptyDict
    /\ decoded = NoDecoded
    /\ ev = NoEv
    /\ room = NoRoom
    /\ thr = NoThread
    /\ bot = NoBot
    /\ anon = NoAnon

NextRoom ==
    \/ JoinStart
    \/ \E fk \in Fkeys : JoinReturn(fk)
    \/ JoinFail
    \/ StartEvents
    \/ \E u \in Urls : FetchUrlOk(u)
    \/ ConnectOk
    \/ Close
    \/ CloseOutcome
    \/ CloseRetry

\* asyncio ends every sleep, and aiohttp ends every POST with an answer or
\* an error
SpecRoom ==
    /\ InitRoom
    /\ [][NextRoom]_vars
    /\ WF_vars(CloseRetry)
    /\ WF_vars(CloseOutcome)

-----------------------------------------------------------------------------
(* Properties of the life of a Room.                                       *)

\* C18: when Room.join has returned the Room, the connection loop of the
\* room has been started and its first connection is established.
C18_JoinReturnsConnected ==
    room.pc = "open" => ev.pc \notin {"off", "fetch", "connect"}

\* C19: a call of Room.close ends, by returning or by raising, whatever the
\* server answers.
C19_CloseTerminates ==
    (room.pc = "leaving") ~> (room.pc \in {"closed", "failed"})

\* C20: once Room.close has returned or raised, the session is closed.
C20_CloseReleasesSession ==
    room.pc \in {"closed", "failed"} => room.session = "closed"


-----------------------------------------------------------------------------
(* The threaded Room of __init__.py: its registry of handlers (on, off),   *)
(* the dispatch of the events of a frame (process, handle), its sockets    *)
(* and its threads (connect, run).                                         *)

MaxSockets == 2

\* f without the key k: dict.pop(k)
Pop(f, k) == [x \in DOMAIN f \ {k} |-> f[x]]

\* f[k] = v
Put(f, k, v) == (k :> v) @@ f

\* the callbacks an application registers, and the event types it names
Handlers == {"h1", "h2"}
HandlerTags == {1, 8}

\* the keys of Room.internalHandlers: Events.REPLY.value, Events.MENTION.value
InternalTags == {8, 18}

\* the events of the frames the thread receives: a message, a mention, an
\* event of an unknown type and an event without event_type
UnknownType == [FullEvent(1) EXCEPT !["event_type"] = VInt(99)]
NoType == Without(FullEvent(1), {"event_type"})
ThreadFrames ==
    { <<GoodMessage>>, <<GoodMention, GoodMessage>>, <<GoodMessage, GoodMention>>,
      <<UnknownType, GoodMessage>>, <<NoType, GoodMessage>> }

\* the callbacks that raise whenever they are called
Bads == {{}, {"h1"}}

\* the values of the local variable data of Room.run: not assigned yet, a
\* str with the text s, the dict of a frame with events for the room, and
\* the other values json.loads returns
Unbound == [t |-> "unbound", s |-> <<>>]
PyStr(s) == [t |-> "str", s |-> s]
PyFrame == [t |-> "frame", s |-> <<>>]
PyNum == [t |-> "int", s |-> <<>>]
PyDict == [t |-> "dict", s |-> <<>>]

\* the text is a JSON string literal without escapes
IsJsonString(text) ==
    /\ Len(text) >= 2
    /\ text[1] = "\"" /\ text[Len(text)] = "\""
    /\ \A i \in 2..(Len(text) - 1) : text[i] \notin {"\"", "\\"}

\* json.loads(data) in Room.run: TypeError for a value that is no str,
\* JSONDecodeError for a str that is no JSON
RunLoads(data) ==
    IF data.t # "str" THEN [exc |-> "TypeError", v |-> data]
    ELSE IF IsJsonString(data.s)
    THEN [exc |-> "", v |-> PyStr(SubSeq(data.s, 2, Len(data.s) - 1))]
    ELSE LET j == JsonLoads(data.s)
         IN  IF ~j.ok THEN [exc |-> "JSONDecodeError", v |-> data]
             ELSE IF j.v.t = "obj" THEN [exc |-> "", v |-> PyDict]
             ELSE IF j.v.t = "str" THEN [exc |-> "", v |-> PyStr(<<j.v.s>>)]
             ELSE [exc |-> "", v |-> PyNum]

\* "r" + str(self.roomID) in data, for a str: the key is a substring of it
HasRoomKey(s) ==
    \E i \in 1..Len(s) :
        /\ i + Len(RoomKey(room_id)) - 1 <= Len(s)
        /\ SubSeq(s, i, i + Len(RoomKey(room_id)) - 1) = RoomKey(room_id)

\* Room.process(data) for a value that is not the dict of a frame of the
\* room: the exception that leaves it ("" for none)
ProcessValue(data) ==
    CASE data.t = "int" -> "TypeError"
      [] data.t = "str" -> IF HasRoomKey(data.s) THEN "TypeError" ELSE ""
      [] OTHER -> ""

\* self.cooldown = 2
InitialCooldown == 2

\* Room.__init__: no handlers; connect() opens the socket and starts the
\* thread of Room.run
Construct(bad) ==
    /\ thr.pc = "none"
    /\ thr' = [thr EXCEPT !.pc = "made", !.bad = bad, !.sockets = 1,
                          !.threads = 1, !.cooldown = InitialCooldown]
    /\ UNCHANGED <<fkey, calls, raw, decoded, ev, room, bot, anon>>

\* Room.run starts: self.running = True
ThreadStart ==
    /\ thr.entered < thr.threads
    /\ thr' = [thr EXCEPT !.entered = @ + 1, !.running = TRUE]
    /\ UNCHANGED <<fkey, calls, raw, decoded, ev, room, bot, anon>>

\* the application calls Room.connect(): a new socket replaces self.socket,
\* which is not closed, and a thread is started unless running is set
Connect ==
    /\ thr.pc = "made"
    /\ thr.sockets < MaxSockets
    /\ thr' = [thr EXCEPT !.sockets = @ + 1,
                          !.threads = IF thr.running THEN @ ELSE @ + 1]
    /\ UNCHANGED <<fkey, calls, raw, decoded, ev, room, bot, anon>>

RegisteredOverwrites(t, tag, callback) ==
    [t EXCEPT !.handlers = Put(@, tag, callback),
              !.asked = @ \cup {<<tag, callback>>},
              !.op = <<"on", tag, callback>>, !.res = "returned"]

\* the Room t once on(event, callback) has been called for an event type
\* with the value tag
Registered(t, tag, callback) ==
    LET u == [t EXCEPT !.asked = @ \cup {<<tag, callback>>},
                       !.op = <<"on", tag, callback>>]
    IN  IF tag \notin DOMAIN t.handlers
        THEN [u EXCEPT !.handlers = Put(@, tag, callback), !.res = "returned"]
        ELSE [u EXCEPT !.res = "ValueError"]

\* Room.on(event, callback)
On(tag, callback) ==
    /\ thr.pc = "made"
    /\ thr' = Registered(thr, tag, callback)
    /\ UNCHANGED <<fkey, calls, raw, decoded, ev, room, bot, anon>>

\* Room.off(event)
Off(tag) ==
    /\ thr.pc = "made"
    /\ thr' = IF tag \in DOMAIN thr.handlers
              THEN [thr EXCEPT !.handlers = Pop(@, tag),
                               !.asked = {p \in @ : p[1] # tag},
                               !.op = <<"off", tag>>, !.res = "returned"]
              ELSE [thr EXCEPT !.op = <<"off", tag>>, !.res = "ValueError"]
    /\ UNCHANGED <<fkey, calls, raw, decoded, ev, room, bot, anon>>

\* Room.handle(event["event_type"], event) for the event i of the frame:
\* the calls it makes, and the exception that leaves it ("" for none). net
\* says whether the POST of Room._replyHandler succeeds.
Handle(t, event, i, net) ==
    LET tag == event["event_type"].i
        ack == [kind |-> "ack", idx |-> i, h |-> ""]
        call == [kind |-> "call", idx |-> i, h |-> t.handlers[tag]]
    IN  IF tag \in InternalTags /\ "message_id" \notin DOMAIN event
        THEN [log |-> <<>>, exc |-> "KeyError"]
        ELSE IF tag \in InternalTags /\ ~net
        THEN [log |-> <<ack>>, exc |-> "ConnectionError"]
        ELSE LET acks == IF tag \in InternalTags THEN <<ack>> ELSE <<>>
             IN  IF tag \notin DOMAIN t.handlers
                 THEN [log |-> acks, exc |-> ""]
                 ELSE [log |-> Append(acks, call),
                       exc |-> IF t.handlers[tag] \in t.bad
                               THEN "HandlerError" ELSE ""]

\* the body of the loop of Room.process for the event i of the frame: the
\* calls it makes and the exception that leaves process ("" for none)
ProcessEvent(t, event, i, net) ==
    IF "event_type" \notin DOMAIN event
    THEN [log |-> <<>>, exc |-> "KeyError"]
    ELSE LET h == Handle(t, event, i, net)
             tag == event["event_type"].i
         IN  IF h.exc = "" THEN h
             ELSE IF tag \in EventTypeValues
             THEN [log |-> Append(h.log, [kind |-> "error", idx |-> i, h |-> ""]),
                   exc |-> ""]
             ELSE [log |-> h.log, exc |-> "ValueError"]

\* Room.process from the event i of the frame on
RECURSIVE ProcessFrom(_, _, _)
ProcessFrom(t, i, net) ==
    IF i > Len(t.frame) THEN t
    ELSE LET r == ProcessEvent(t, t.frame[i], i, net)
             u == [t EXCEPT !.log = @ \o r.log]
         IN  IF r.exc = ""
             THEN ProcessFrom([u EXCEPT !.done = i], i + 1, net)
             ELSE [u EXCEPT !.exc = r.exc, !.threads = @ - 1,
                            !.entered = @ - 1]

\* a thread of Room.run receives a frame with these events for the room and
\* calls process: an exception that leaves process ends the thread
RecvFrame(events, net) ==
    /\ thr.entered >= 1
    /\ thr.running
    /\ thr' = ProcessFrom([thr EXCEPT !.frame = events, !.log = <<>>,
                                      !.done = 0, !.exc = "",
                                      !.data = PyFrame, !.recv = "frame",
                                      !.called = TRUE], 1, net)
    /\ UNCHANGED <<fkey, calls, raw, decoded, ev, room, bot, anon>>

\* an exception leaves Room.run and ends the thread: running stays as it is
Died(t, exc) ==
    [t EXCEPT !.exc = exc, !.threads = @ - 1, !.entered = @ - 1]

\* connect() called by the thread of Room.run, which has set running: a
\* socket is opened and no thread is started, or ConnectionError is raised
Reconnected(t, conn) ==
    IF conn THEN [t EXCEPT !.sockets = @ + 1] ELSE Died(t, "ConnectionError")

\* an iteration of the loop of Room.run from the test of data on: data is
\* what the last assignment to it left
AfterRecv(t) ==
    IF t.data = Unbound THEN Died(t, "UnboundLocalError")
    ELSE IF t.data = PyStr(<<>>) THEN t
    ELSE LET j == RunLoads(t.data)
         IN  IF j.exc = "JSONDecodeError" THEN t
             ELSE IF j.exc # "" THEN Died(t, j.exc)
             ELSE LET u == [t EXCEPT !.data = j.v, !.called = TRUE]
                      e == ProcessValue(j.v)
                  IN  IF e = "" THEN u ELSE Died(u, e)

\* what an iteration finds when it starts
IterationOf(t, recv) ==
    [t EXCEPT !.recv = recv, !.called = FALSE, !.frame = <<>>, !.log = <<>>,
              !.done = 0, !.exc = ""]

\* socket.recv() raises WebSocketTimeoutException: continue
RecvTimeout ==
    /\ thr.entered >= 1
    /\ thr.running
    /\ thr' = IterationOf(thr, "timeout")
    /\ UNCHANGED <<fkey, calls, raw, decoded, ev, room, bot, anon>>

\* socket.recv() returns a text that is not the JSON of a frame with events
\* for the room. late says that lastPing is more than 60 seconds ago at the
\* end of the iteration, conn whether connect() succeeds then.
RecvText(text, late, conn) ==
    /\ thr.entered >= 1
    /\ thr.running
    /\ LET t == AfterRecv([IterationOf(thr, "frame") EXCEPT !.data = PyStr(text)])
       IN  thr' = IF t.exc # "" \/ t.called \/ ~late THEN t
                  ELSE Reconnected([t EXCEPT !.sockets = @ - 1], conn)
    /\ UNCHANGED <<fkey, calls, raw, decoded, ev, room, bot, anon>>

\* socket.recv() raises WebSocketConnectionClosedException: connect(), and
\* the iteration goes on with the data that an earlier iteration left
RecvClosed(conn) ==
    /\ thr.entered >= 1
    /\ thr.running
    /\ LET t == Reconnected([IterationOf(thr, "closed") EXCEPT !.sockets = @ - 1],
                            conn)
       IN  thr' = IF t.exc # "" THEN t ELSE AfterRecv(t)
    /\ UNCHANGED <<fkey, calls, raw, decoded, ev, room, bot, anon>>

\* socket.recv() raises another exception: ConnectionError leaves run
RecvError ==
    /\ thr.entered >= 1
    /\ thr.running
    /\ thr' = Died(IterationOf(thr, "error"), "ConnectionError")
    /\ UNCHANGED <<fkey, calls, raw, decoded, ev, room, bot, anon>>

\* Room.halt(): running is cleared if it is set
Halt ==
    /\ thr.pc = "made"
    /\ thr' = IF thr.running
              THEN [thr EXCEPT !.halted = TRUE, !.running = FALSE]
              ELSE [thr EXCEPT !.halted = TRUE]
    /\ UNCHANGED <<fkey, calls, raw, decoded, ev, room, bot, anon>>

\* a thread of Room.run finds running cleared at the test of its loop: it
\* posts the leave request and closes the socket. net says whether the POST
\* succeeds.
LoopExit(net) ==
    /\ thr.entered >= 1
    /\ ~thr.running
    /\ thr' = IF net
              THEN [thr EXCEPT !.threads = @ - 1, !.entered = @ - 1,
                               !.sockets = @ - 1, !.left = @ + 1]
              ELSE Died(thr, "ConnectionError")
    /\ UNCHANGED <<fkey, calls, raw, decoded, ev, room, bot, anon>>

\* the texts the socket delivers: empty, no JSON, a number, an object
\* without the key of the room, and string literals with these inside
RunTexts ==
    { <<>>, <<"x">>, <<"7">>, <<"{", "}">>,
      <<"\"", "x", "\"">>, <<"\"", "7", "\"">>, <<"\"", "{", "}", "\"">>,
      <<"\"", "r", "1", "\"">> }

InitThread ==
    /\ fkey = <<>>
    /\ calls = [c \in AllCallers |-> IdleCall]
    /\ raw = EmptyDict
    /\ decoded = NoDecoded
    /\ ev = NoEv
    /\ room = NoRoom
    /\ thr = NoThread
    /\ bot = NoBot
    /\ anon = NoAnon

NextThread ==
    \/ \E bad \in Bads : Construct(bad)
    \/ ThreadStart
    \/ Connect
    \/ \E tag \in HandlerTags, h \in Handlers : On(tag, h)
    \/ \E tag \in HandlerTags : Off(tag)
    \/ thr.entered >= 1 /\ \E f \in ThreadFrames, net \in BOOLEAN : RecvFrame(f, net)

SpecThread == InitThread /\ [][NextThread]_vars

\* the loop of Room.run and halt(), for a Room without handlers
NextRun ==
    \/ Construct({})
    \/ ThreadStart
    \/ Halt
    \/ RecvTimeout
    \/ \E text \in RunTexts, late \in BOOLEAN, conn \in BOOLEAN :
           RecvText(text, late, conn)
    \/ \E conn \in BOOLEAN : RecvClosed(conn)
    \/ RecvError
    \/ RecvFrame(<<GoodMessage>>, TRUE)
    \/ \E net \in BOOLEAN : LoopExit(net)

SpecRun == InitThread /\ [][NextRun]_vars

\* the largest cooldown that is squared
MaxCooldown == 256

\* the methods of the Room that give their request to processTooFast
TooFastMethods ==
    {"send", "edit", "delete", "star", "pin", "unpin", "clearStars"}

\* a method of the Room calls processTooFast(func, handleTooFast)
TooFastCall(method, handleTooFast) ==
    /\ thr.pc = "made"
    /\ thr.tf.pc = "idle"
    /\ thr' = [thr EXCEPT !.tf = [pc |-> "request", method |-> method,
                                  handle |-> handleTooFast, res |-> ""],
                          !.slept = <<>>]
    /\ UNCHANGED <<fkey, calls, raw, decoded, ev, room, bot, anon>>

\* the Room t once processTooFast has gone on after func(): answer is
\* "exception" when func raised, "toofast" for a text that starts with "You
\* can perform this action again", "toolate" for one that starts with "It
\* is too late", and "ok" for any other. After the sleep processTooFast
\* calls itself, which calls func again.
TooFastAnswered(t, answer) ==
    CASE answer = "exception" ->
            [t EXCEPT !.tf.pc = "idle", !.tf.res = "None"]
      [] answer = "toofast" ->
            IF t.tf.handle
            THEN [t EXCEPT !.slept = Append(@, t.cooldown),
                           !.cooldown = t.cooldown * t.cooldown]
            ELSE [t EXCEPT !.tf.pc = "idle", !.tf.res = "TooFastError"]
      [] answer = "toolate" ->
            [t EXCEPT !.tf.pc = "idle", !.tf.res = "False"]
      [] OTHER ->
            [t EXCEPT !.tf.pc = "idle", !.tf.res = "r",
                      !.cooldown = InitialCooldown]

\* func() returns or raises
TooFastAnswer(answer) ==
    /\ thr.tf.pc = "request"
    /\ answer = "toofast" => thr.cooldown <= MaxCooldown
    /\ thr' = TooFastAnswered(thr, answer)
    /\ UNCHANGED <<fkey, calls, raw, decoded, ev, room, bot, anon>>

NextTooFast ==
    \/ Construct({})
    \/ \E method \in TooFastMethods, handleTooFast \in BOOLEAN :
           TooFastCall(method, handleTooFast)
    \/ \E answer \in {"exception", "toofast", "toolate", "ok"} :
           TooFastAnswer(answer)

SpecTooFast == InitThread /\ [][NextTooFast]_vars

-----------------------------------------------------------------------------
(* Properties of the threaded Room.                                        *)

\* the handlers that process called for the event i of the frame
CalledFor(t, i) ==
    {t.log[j].h : j \in {x \in 1..Len(t.log) :
                            t.log[x].kind = "call" /\ t.log[x].idx = i}}

\* the event type of the event i of the frame
TagOf(t, i) == t.frame[i]["event_type"].i

\* what process leaves behind
Processed(t) == <<t.frame, t.log, t.done, t.exc>>

C24_RaisingHandlerDoesNotStopDispatch ==
    [][\A f \in ThreadFrames :
          (/\ RecvFrame(f, TRUE)
           /\ \E tag \in DOMAIN thr.handlers : thr.handlers[tag] \in thr.bad) =>
              /\ thr'.exc = ""
              /\ thr'.threads = thr.threads
              /\ thr'.done = Len(f)
              /\ \A i \in 1..Len(f) :
                    ("event_type" \in DOMAIN f[i]
                        /\ f[i]["event_type"].i \in DOMAIN thr.handlers)
                        => thr.handlers[f[i]["event_type"].i]
                               \in CalledFor(thr', i)]_vars

\* C27: a Room has at most one open socket and at most one thread of
\* Room.run at any time.
C27_OneConnectionLoop ==
    /\ thr.sockets <= 1
    /\ thr.threads <= 1

-----------------------------------------------------------------------------
(* The Bot of bot.py: the rooms it has joined and the tasks that run their *)
(* loops. A task is running, cancelling (cancel() has been called and the  *)
(* CancelledError is still to be thrown into it), or done: failed (ended   *)
(* by an exception), cancelled or finished. When a task is done asyncio     *)
(* schedules its done-callback with call_soon: the callback runs in a later *)
(* step of the event loop, after the callbacks that were ready before it.   *)

MaxRooms == 2
MaxTasks == 3
RoomIds == {1, 2}

\* create_task(room.loop()) with add_done_callback(partial(_rejoinRoom, room)):
\* watched says that the task has the done-callback
NewTask(r, b) ==
    [room |-> r, state |-> "running", cb |-> FALSE, late |-> r \in b.left,
     watched |-> TRUE]

\* Bot.joinRoom(roomID), up to its wait for room._connectedEvent
JoinRoom(roomID) ==
    /\ Len(bot.made) < MaxRooms
    /\ Len(bot.tasks) < MaxTasks
    /\ LET r == Len(bot.made) + 1
           t == Len(bot.tasks) + 1
       IN  bot' =
             IF ~bot.logged
             THEN [bot EXCEPT !.op = <<"joinRoom", roomID>>,
                              !.res = "RuntimeError"]
             ELSE [bot EXCEPT !.made = Append(@, roomID),
                              !.tasks = Append(@, NewTask(r, bot)),
                              !.rooms = Put(@, roomID, r),
                              !.roomTasks = Put(@, r, t),
                              !.op = <<"joinRoom", roomID>>,
                              !.res = "waiting"]
    /\ UNCHANGED <<fkey, calls, raw, decoded, ev, room, thr, anon>>

\* the loop of a room ends: by an exception, by returning, or, when
\* cancel() has been called, by the CancelledError thrown into it
TaskEnds(t, how) ==
    /\ t \in 1..Len(bot.tasks)
    /\ \/ bot.tasks[t].state = "running" /\ how \in {"failed", "finished"}
       \/ bot.tasks[t].state = "cancelling" /\ how = "cancelled"
    /\ bot' = [bot EXCEPT !.tasks[t].state = how,
                          !.tasks[t].cb = bot.tasks[t].watched]
    /\ UNCHANGED <<fkey, calls, raw, decoded, ev, room, thr, anon>>

RejoinedUnwatched(b, t) ==
    LET r == b.tasks[t].room
        done == [b EXCEPT !.tasks[t].cb = FALSE]
    IN  IF b.tasks[t].state = "failed"
        THEN [done EXCEPT !.tasks = Append(@, [NewTask(r, b) EXCEPT
                                                  !.watched = FALSE]),
                          !.roomTasks = Put(@, r, Len(b.tasks) + 1)]
        ELSE done

\* the Bot b once Bot._rejoinRoom(room, task) has run for the task t
Rejoined(b, t) ==
    LET r == b.tasks[t].room
        done == [b EXCEPT !.tasks[t].cb = FALSE]
    IN  IF b.tasks[t].state = "failed"
        THEN [done EXCEPT !.tasks = Append(@, NewTask(r, b)),
                          !.roomTasks = Put(@, r, Len(b.tasks) + 1)]
        ELSE done

\* the event loop runs the done-callback of the task t
RejoinRoom(t) ==
    /\ t \in 1..Len(bot.tasks)
    /\ bot.tasks[t].cb
    /\ bot.tasks[t].state = "failed" => Len(bot.tasks) < MaxTasks
    /\ bot' = Rejoined(bot, t)
    /\ UNCHANGED <<fkey, calls, raw, decoded, ev, room, thr, anon>>

\* task.cancel(): a task that is done is left as it is
Cancel(task) ==
    IF task.state = "running" THEN [task EXCEPT !.state = "cancelling"]
    ELSE task

\* the Bot b once Bot.leaveRoom(roomID) has run
Left(b, roomID) ==
    IF roomID \notin DOMAIN b.rooms
    THEN [b EXCEPT !.op = <<"leaveRoom", roomID>>, !.res = "KeyError"]
    ELSE LET r == b.rooms[roomID]
             t == b.roomTasks[r]
         IN  [b EXCEPT !.rooms = Pop(@, roomID),
                       !.roomTasks = Pop(@, r),
                       !.tasks[t] = Cancel(@),
                       !.left = @ \cup {r},
                       !.op = <<"leaveRoom", roomID>>,
                       !.res = "returned"]

\* Bot.leaveRoom(roomID)
LeaveRoom(roomID) ==
    /\ bot' = Left(bot, roomID)
    /\ UNCHANGED <<fkey, calls, raw, decoded, ev, room, thr, anon>>

\* leaveRoom for each of the room ids, in some order
RECURSIVE LeftAll(_, _)
LeftAll(b, ids) ==
    IF ids = {} THEN b
    ELSE LET id == CHOOSE x \in ids : TRUE
         IN  LeftAll(Left(b, id), ids \ {id})

\* Bot.leaveAllRooms(): leaveRoom for every key of rooms
LeaveAllRooms ==
    /\ bot' = [LeftAll(bot, DOMAIN bot.rooms) EXCEPT
                  !.op = <<"leaveAllRooms">>, !.res = "returned"]
    /\ UNCHANGED <<fkey, calls, raw, decoded, ev, room, thr, anon>>

\* Bot.shutdown(): wait_for(self.session.close(), 3) makes the coroutine
\* objects of session.close() and of wait_for and drops them: without an
\* await neither of them runs
Shutdown ==
    /\ bot' = [bot EXCEPT !.unawaited = @ \cup {"session.close", "wait_for"},
                          !.op = <<"shutdown">>, !.res = "returned"]
    /\ UNCHANGED <<fkey, calls, raw, decoded, ev, room, thr, anon>>

InitBot ==
    /\ fkey = <<>>
    /\ calls = [c \in AllCallers |-> IdleCall]
    /\ raw = EmptyDict
    /\ decoded = NoDecoded
    /\ ev = NoEv
    /\ room = NoRoom
    /\ thr = NoThread
    /\ bot \in {[NoBot EXCEPT !.logged = l] : l \in BOOLEAN}
    /\ anon = NoAnon

NextBot ==
    \/ \E id \in RoomIds : JoinRoom(id)
    \/ \E t \in 1..MaxTasks, how \in {"failed", "finished", "cancelled"} :
          TaskEnds(t, how)
    \/ \E t \in 1..MaxTasks : RejoinRoom(t)
    \/ \E id \in RoomIds : LeaveRoom(id)
    \/ LeaveAllRooms
    \/ Shutdown

SpecBot == InitBot /\ [][NextBot]_vars

-----------------------------------------------------------------------------
(* Properties of the Bot.                                                  *)

\* C25: Bot.leaveRoom(roomID) for a room the bot is not in raises ValueError
\* and leaves the rooms of the bot as they are; for a room the bot is in it
\* returns and removes that room, and no other, from the rooms.
C25_LeaveRoomNotJoinedRaisesValueError ==
    [][\A id \in RoomIds :
          LeaveRoom(id) =>
              IF id \in DOMAIN bot.rooms
              THEN /\ bot'.res = "returned"
                   /\ bot'.rooms = Pop(bot.rooms, id)
              ELSE /\ bot'.res = "ValueError"
                   /\ bot'.rooms = bot.rooms]_vars

\* C30: once leaveRoom has returned for a Room, no task is created for that
\* Room and the Room has no entry in roomTasks.
C30_NoTaskAfterLeaveRoom ==
    /\ \A t \in 1..Len(bot.tasks) : ~bot.tasks[t].late
    /\ \A r \in bot.left : r \notin DOMAIN bot.roomTasks

-----------------------------------------------------------------------------
(* Properties of concurrent calls of the gateway.                          *)

\* C26: Room._request is reentrant. Of two calls in flight at once each
\* sends its own url and its own data (with the token) in every attempt and
\* returns the body of its own last answer, a 200; a call that is to send
\* its POST can send it whatever the other call is doing, in particular
\* while the other sleeps in its 409 backoff; and a step of one call leaves
\* the other call as it was.
C26_RequestIsReentrant ==
    /\ [](\A c \in Callers :
            LET k == calls[c]
            IN  /\ k.posts >= 1 =>
                      /\ k.last.url = k.url
                      /\ k.last.form = RequestForm(k.data, fkey).form
                      /\ k.posts \in {k.tries, k.tries + 1}
                /\ (k.op = "request" /\ k.pc = "returned") =>
                      k.status = 200 /\ k.text = k.body
                /\ k.pc = "post" => ENABLED Post(c))
    /\ [][\A c \in Callers :
            calls'[c] # calls[c] =>
                \A d \in AllCallers \ {c} : calls'[d] = calls[d]]_vars

\* one call sleeps in its backoff after a 409 while the other, called with
\* other data, has sent its own request and has its own body back
C26_Witness ==
    /\ calls["c1"].pc = "sleep"
    /\ calls["c1"].tries = 1
    /\ calls["c2"].op = "request"
    /\ calls["c2"].pc = "returned"
    /\ calls["c2"].data # calls["c1"].data
    /\ calls["c2"].text # calls["c1"].body
    /\ calls["c2"].posts = 1

-----------------------------------------------------------------------------
(* Properties of the handling of a frame.                                  *)

\* the acknowledgment of the generator is in flight
AckInFlight == calls[Loop].pc \in {"post", "await", "sleep"}

\* C28: Room.events does not wait for the next frame before the frame it
\* works on is settled. While it waits in receive_json no event of a frame
\* and no acknowledgment is outstanding; an event is with the consumer only
\* once its acknowledgment has ended; and the generator turns from a frame
\* to receive_json (or to the reset of the connection) only when the
\* consumer asks for more after the last event of the frame, with every
\* event of the frame yielded and no acknowledgment in flight.
C28_OneFrameOutstanding ==
    /\ [](/\ ev.pc = "recv" => ev.frame = <<>> /\ ev.log = <<>> /\ ~AckInFlight
          /\ ev.pc = "yielded" => ~AckInFlight
          /\ ev.pc = "ack" => AckInFlight /\ ev.i \notin YieldedIdx)
    /\ [][(ev.frame # <<>> /\ ev'.pc \in {"recv", "fetch"}) =>
              /\ ev.pc = "yielded"
              /\ ~AckInFlight
              /\ ev.i = Len(ev.frame)
              /\ YieldedIdx = 1..Len(ev.frame)]_vars

\* the generator waits for the next frame after a frame of three events,
\* the second of which needed an acknowledgment that was answered 409 first
C28_Witness ==
    /\ ev.pc = "yielded"
    /\ Len(ev.frame) = 3
    /\ ev.i = 3
    /\ \E a \in 1..Len(ev.log) :
          /\ ev.log[a].kind = "post"
          /\ ev.log[a].idx = 2
          /\ a < Len(ev.log)
          /\ ev.log[a + 1].kind = "post"

-----------------------------------------------------------------------------
(* Properties of the wrappers and of the action methods.                   *)

\* the 200 bodies that are not JSON
NoJsonBodies == {<<"x">>, <<>>}

\* the call k has ended after an answer with status 200
EndedOn200(k) == k.status = 200 /\ k.pc \in {"returned", "raised"}

\* C21: a call of Room._ok_request that gets a 200 returns normally if and
\* only if the body is the JSON string "ok", and raises OperationFailedError
\* for every other 200 body; a call of Room._json_request that gets a 200
\* body that is not JSON raises OperationFailedError with that body attached;
\* in both cases the 200 answered the last POST of the call: the POSTs of
\* the call are the first one and one for every 409, and none follows.
C21_WrappersRaiseOperationFailed ==
    \A c \in Callers :
        LET k == calls[c]
        IN  /\ (k.op = "ok_request" /\ EndedOn200(k)) =>
                  /\ k.pc = "returned" <=> k.body = <<"\"ok\"">>
                  /\ k.pc = "raised" => k.exc = "OperationFailedError"
                  /\ k.posts = k.tries + 1
            /\ (k.op = "json_request" /\ k.status = 200
                    /\ k.body \in NoJsonBodies) =>
                  /\ k.pc = "raised"
                  /\ k.exc = "OperationFailedError"
                  /\ k.text = k.body
                  /\ k.posts = k.tries + 1
            /\ (k.op \in {"ok_request", "json_request"} /\ EndedOn200(k)) =>
                  /\ k.last.url = k.url
                  /\ ~ENABLED Post(c)
                  /\ ~ENABLED Wake(c)

\* Room._ok_request has raised for a 200 body that is JSON but not "ok",
\* after one 409
C21_Witness ==
    /\ calls["c1"].op = "ok_request"
    /\ calls["c1"].pc = "raised"
    /\ calls["c1"].status = 200
    /\ calls["c1"].body = <<"{", "}">>
    /\ calls["c1"].tries = 1
    /\ calls["c1"].posts = 2

\* C22: a call of an action method of Room (or of one of the wrappers) that
\* ends after an answer of the server, whatever its status and body, has
\* returned normally or raised OperationFailedError, and a call that raises
\* without an answer raises ValueError; RatelimitError is never raised.
C22_OnlyOperationFailedOrValueError ==
    \A c \in Callers :
        LET k == calls[c]
        IN  /\ (k.pc = "raised" /\ k.status # 0) =>
                  k.exc \in {"OperationFailedError", "ValueError"}
            /\ k.exc # "RatelimitError"

-----------------------------------------------------------------------------
(* Properties of the loop of Room.run and of halt().                       *)

\* C31: once halt() has been called, running is clear whenever a thread of
\* Room.run is in its loop, so that the thread leaves the loop at its next
\* test, posts the leave request and closes the socket: also when halt() is
\* called right after the constructor, before the thread has set running.
C31_HaltStopsTheThread ==
    thr.halted => ~(thr.running /\ thr.entered >= 1)

\* C32: an iteration of the loop of Room.run calls process() only with the
\* frame that its own socket.recv() returned: an iteration whose receive
\* failed, also the one that reconnects after the connection was closed,
\* does not call process(), so that no frame is passed to process() twice.
C32_FailedReceiveDispatchesNothing ==
    thr.called => thr.recv = "frame"

-----------------------------------------------------------------------------
(* Properties of the rooms and the tasks of the Bot.                       *)

\* the tasks of Rooms with the room id that are running
LiveTasks(id) ==
    {t \in 1..Len(bot.tasks) :
        bot.made[bot.tasks[t].room] = id /\ bot.tasks[t].state = "running"}

\* C33: after any calls of joinRoom, leaveRoom and leaveAllRooms the Rooms
\* in rooms are the keys of roomTasks, and no room id has more than one
\* running task: joining an id that is joined already leaves no earlier
\* task running that rooms does not know.
C33_RoomsAreTheKeysOfRoomTasks ==
    /\ {bot.rooms[id] : id \in DOMAIN bot.rooms} = DOMAIN bot.roomTasks
    /\ \A id \in RoomIds : Cardinality(LiveTasks(id)) <= 1

\* the task t was restarted: a later task runs the loop of the same Room
Restarted(t) ==
    \E u \in (t + 1)..Len(bot.tasks) : bot.tasks[u].room = bot.tasks[t].room

\* C34: when _rejoinRoom runs for a task that an exception ended, it creates
\* a task for the loop of the same Room, stores it as roomTasks[room] and
\* gives it the done-callback; for a task that was cancelled or returned it
\* creates nothing and leaves roomTasks alone. A task that an exception
\* ended has its done-callback pending until it is restarted, the restarted
\* tasks included.
C34_RestartOnExceptionOnly ==
    /\ [][\A t \in 1..MaxTasks :
              RejoinRoom(t) =>
                  IF bot.tasks[t].state = "failed"
                  THEN /\ Len(bot'.tasks) = Len(bot.tasks) + 1
                       /\ bot'.tasks[Len(bot'.tasks)].room = bot.tasks[t].room
                       /\ bot'.tasks[Len(bot'.tasks)].state = "running"
                       /\ bot'.tasks[Len(bot'.tasks)].watched
                       /\ bot'.roomTasks[bot.tasks[t].room] = Len(bot'.tasks)
                  ELSE /\ Len(bot'.tasks) = Len(bot.tasks)
                       /\ bot'.roomTasks = bot.roomTasks]_vars
    /\ [](\A t \in 1..Len(bot.tasks) :
              /\ bot.tasks[t].state = "failed" =>
                    bot.tasks[t].cb \/ Restarted(t)
              /\ bot.tasks[t].state \in {"cancelled", "finished"} =>
                    ~Restarted(t))

\* the task of a room failed and was restarted, and the restarted task
\* failed and was restarted as well
C34_Witness ==
    /\ Len(bot.tasks) = 3
    /\ Len(bot.made) = 1
    /\ bot.tasks[1].state = "failed" /\ ~bot.tasks[1].cb
    /\ bot.tasks[2].state = "failed" /\ ~bot.tasks[2].cb
    /\ bot.tasks[3].state = "running"
    /\ bot.roomTasks = (1 :> 3)
    /\ bot.rooms = (1 :> 1)

\* C36: once Bot.shutdown() has returned, the close of the session has been
\* performed or has been given up after the timeout: it is not left
\* unstarted.
C36_ShutdownClosesSession ==
    (bot.op = <<"shutdown">> /\ bot.res = "returned") =>
        /\ bot.session \in {"closed", "abandoned"}
        /\ "session.close" \notin bot.unawaited

-----------------------------------------------------------------------------
(* Properties of Room.move_messages.                                       *)

\* the sequences that list every element of the set S once
Orders(S) ==
    {q \in [1..Cardinality(S) -> S] :
        \A i, j \in 1..Cardinality(S) : i # j => q[i] # q[j]}

\* the ids of the sequence q in decimal, with commas between them
RECURSIVE Listed(_)
Listed(q) ==
    IF q = <<>> THEN <<>>
    ELSE IF Len(q) = 1 THEN IntToStr(q[1])
    ELSE IntToStr(q[1]) \o <<",">> \o Listed(Tail(q))

\* C37: a call of Room.move_messages that gets a 200 returns normally only
\* if the body is the count of the message ids it was called with, and
\* raises OperationFailedError for every other 200 body; it sends one
\* request and one more for every 409, each to the route of the move and
\* with every id once in the field 'ids'.
C37_MoveMessagesChecksTheCount ==
    \A c \in Callers :
        LET k == calls[c]
        IN  k.op = "move_messages" =>
              /\ EndedOn200(k) =>
                    /\ k.pc = "returned" <=>
                          JsonLoads(k.body) =
                              [ok |-> TRUE, v |-> JNum(Cardinality(k.ids))]
                    /\ k.pc = "raised" => k.exc = "OperationFailedError"
                    /\ k.posts = k.tries + 1
              /\ k.posts <= k.tries + 1
              /\ k.posts >= 1 =>
                    /\ k.last.url = <<"/admin/movePosts/">> \o IntToStr(room_id)
                    /\ k.last.form["ids"] \in {Listed(q) : q \in Orders(k.ids)}

-----------------------------------------------------------------------------
(* Room.anonymous of room.py: the generator that polls /events without a   *)
(* login.                                                                  *)

\* the most POSTs to /events of one generator
MaxPolls == 3

\* poll_interval: its default and another value
DefaultPollInterval == 2
PollIntervals == {DefaultPollInterval, 5}

\* what the server answers to a POST to /events: a dict that has an entry for
\* the room or none; the entry has a time under "t" or not, and events under
\* "e" or not
AnonEvents == {<<GoodMessage>>, <<GoodMessage, UserEntered>>, <<BadId>>}
AnonPayloads ==
    [has_t : BOOLEAN, t : {9}, has_e : {FALSE}, e : {<<>>}] \cup
    [has_t : BOOLEAN, t : {9}, has_e : {TRUE}, e : AnonEvents]

\* the generator a at `for event_data in payload["e"]`, before the event i:
\* it yields validate_python(event_data), or ValidationError leaves it, or
\* the loop is over and sleep(poll_interval) is next
AnonFrom(a, i) ==
    IF i > Len(a.e) THEN [a EXCEPT !.pc = "sleep", !.i = 0, !.e = <<>>]
    ELSE IF validate_python(a.e[i]) = Invalid
    THEN [a EXCEPT !.pc = "raised", !.i = i, !.exc = "ValidationError"]
    ELSE [a EXCEPT !.pc = "yield", !.i = i]

\* the consumer starts to iterate Room.anonymous(room_id, poll_interval =
\* interval): the fkey is scraped and the first POST is answered with the
\* time `time`
AnonStart(interval, time) ==
    /\ anon.pc = "off"
    /\ anon' = [anon EXCEPT !.pc = "poll", !.interval = interval,
                            !.last_time = time]
    /\ UNCHANGED <<fkey, calls, raw, decoded, ev, room, thr, bot>>

\* the POST to /events is answered without an entry for the room: continue
AnonPollNothing ==
    /\ anon.pc = "poll"
    /\ Len(anon.times) < MaxPolls
    /\ anon' = [anon EXCEPT !.times = Append(@, anon.now)]
    /\ UNCHANGED <<fkey, calls, raw, decoded, ev, room, thr, bot>>

\* the POST to /events is answered with the entry payload for the room
AnonPoll(payload) ==
    /\ anon.pc = "poll"
    /\ Len(anon.times) < MaxPolls
    /\ LET a == [anon EXCEPT !.times = Append(@, anon.now),
                             !.last_time = IF payload.has_t THEN payload.t
                                           ELSE @]
       IN  anon' = IF payload.has_e THEN AnonFrom([a EXCEPT !.e = payload.e], 1)
                   ELSE [a EXCEPT !.pc = "sleep"]
    /\ UNCHANGED <<fkey, calls, raw, decoded, ev, room, thr, bot>>

\* the consumer asks for the next event
AnonNext ==
    /\ anon.pc = "yield"
    /\ anon' = AnonFrom(anon, anon.i + 1)
    /\ UNCHANGED <<fkey, calls, raw, decoded, ev, room, thr, bot>>

\* await sleep(poll_interval) returns
AnonSleep ==
    /\ anon.pc = "sleep"
    /\ anon' = [anon EXCEPT !.pc = "poll", !.now = @ + anon.interval]
    /\ UNCHANGED <<fkey, calls, raw, decoded, ev, room, thr, bot>>

InitAnon ==
    /\ fkey = <<>>
    /\ calls = [c \in AllCallers |-> IdleCall]
    /\ raw = EmptyDict
    /\ decoded = NoDecoded
    /\ ev = NoEv
    /\ room = NoRoom
    /\ thr = NoThread
    /\ bot = NoBot
    /\ anon = NoAnon

NextAnon ==
    \/ \E interval \in PollIntervals, time \in {0, 4} : AnonStart(interval, time)
    \/ AnonPollNothing
    \/ \E payload \in AnonPayloads : AnonPoll(payload)
    \/ AnonNext
    \/ AnonSleep

SpecAnon == InitAnon /\ [][NextAnon]_vars

-----------------------------------------------------------------------------
(* Properties of Room.anonymous.                                           *)

\* C38: Room.anonymous sleeps poll_interval seconds between any two
\* POSTs to /events that follow each other, whatever the server answered to
\* the first of them, a dict without an entry for the room included: no two
\* polls are sent back to back.
C38_PollIntervalBetweenPolls ==
    \A i \in 2..Len(anon.times) :
        anon.times[i] - anon.times[i - 1] >= anon.interval

-----------------------------------------------------------------------------
(* Properties of the token of the Room.                                    *)

\* C35: no step of the Room changes Room._fkey, and every request carries
\* it: the acknowledgments, which go through Room._request, in their first
\* POST and in every retry, and every POST of /ws-auth that the generator
\* has sent, on its first connection and on every reconnect.
C35_OneTokenInEveryRequest ==
    /\ [][fkey' = fkey]_vars
    /\ [](/\ calls[Loop].posts >= 1 =>
                /\ calls[Loop].first.form["fkey"] = fkey
                /\ calls[Loop].last.form["fkey"] = fkey
          /\ \A f \in ev.auths : f["fkey"] = fkey
          /\ ev.pc # "off" => ev.auths # {})

\* after a reconnect, with the second POST of /ws-auth answered, the
\* acknowledgment of a mention has been sent a second time after a 409
C35_Witness ==
    /\ ev.left # ""
    /\ ev.pc = "ack"
    /\ calls[Loop].posts = 2
    /\ calls[Loop].url = AckUrl
    /\ ev.auths = {SocketAuthForm(fkey)}

-----------------------------------------------------------------------------
(* Properties of the handlers of the threaded Room.                        *)

\* how often process called the callback h for the event i of the frame
CallsFor(t, i, h) ==
    Cardinality({j \in 1..Len(t.log) :
                    /\ t.log[j].kind = "call"
                    /\ t.log[j].idx = i
                    /\ t.log[j].h = h})

\* C39: for every event of a received frame that has an event type, the
\* handler that is registered for the type when the frame is received is
\* called once, and nothing is called when no handler is registered for it,
\* as after off(); off() for a type with a handler removes it, and for a
\* type without a handler it raises ValueError and leaves the handlers as
\* they are.
C39_HandlerCalledOncePerEvent ==
    /\ [][Processed(thr') # Processed(thr) =>
              \A i \in 1..Len(thr'.frame) :
                  "event_type" \in DOMAIN thr'.frame[i] =>
                      IF TagOf(thr', i) \in DOMAIN thr.handlers
                      THEN /\ CallsFor(thr', i, thr.handlers[TagOf(thr', i)]) = 1
                           /\ CalledFor(thr', i) = {thr.handlers[TagOf(thr', i)]}
                      ELSE CalledFor(thr', i) = {}]_vars
    /\ [][\A tag \in HandlerTags :
              Off(tag) =>
                  IF tag \in DOMAIN thr.handlers
                  THEN /\ thr'.res = "returned"
                       /\ thr'.handlers = Pop(thr.handlers, tag)
                  ELSE /\ thr'.res = "ValueError"
                       /\ thr'.handlers = thr.handlers]_vars

-----------------------------------------------------------------------------
(* Properties of the cooldown of the threaded Room.                        *)

\* C40: whenever no call of processTooFast is running, Room.cooldown has
\* its initial value, whichever way the last call returned, so that the
\* first sleep of every call is the initial cooldown; within a call every
\* sleep is the square of the sleep before it.
C40_CooldownIsResetOnReturn ==
    /\ (thr.pc = "made" /\ thr.tf.pc = "idle"
            /\ thr.tf.res \in {"", "r", "False", "None"}) =>
          thr.cooldown = InitialCooldown
    /\ Len(thr.slept) >= 1 => thr.slept[1] = InitialCooldown
    /\ \A i \in 2..Len(thr.slept) :
          thr.slept[i] = thr.slept[i - 1] * thr.slept[i - 1]

=========================================================================
